---- MODULE Spec2Model ----
(***************************************************************************)
(* A state-machine model of the Native.js runtime: the dependency          *)
(* injection container (di.ts) and the router (router.ts).                 *)
(***************************************************************************)
EXTENDS Integers, Sequences, FiniteSets, TLC

(***************************************************************************)
(* Bounds of the model.                                                    *)
(***************************************************************************)
\* objects that providers and instance() callers may create in one run
MaxObjects == 3
\* container operations in one run
MaxOps == 4

(***************************************************************************)
(* Values.  An object is identified by the number it got when it was       *)
(* created; Undefined is JavaScript's undefined.                           *)
(***************************************************************************)
Undefined == 0
\* a marker that is no value: nothing was returned yet
NoValue == Undefined - 1
Objects == 1..MaxObjects
Values == {Undefined} \cup Objects

Tokens == {"auth", "api"}
ContainerIds == {"root", "child"}

(***************************************************************************)
(* Providers.  A provider is user code; the model describes what it does:  *)
(* whether the container treats it as a class, the tokens its body         *)
(* resolves (in order), whether the body then raises, and what a factory   *)
(* returns.                                                                *)
(***************************************************************************)
ClassProvider(deps) ==
    [kind |-> "class", deps |-> deps, raises |-> 0, returns |-> "new", value |-> Undefined]

FactoryRaising ==
    [kind |-> "factory", deps |-> <<>>, raises |-> 1, returns |-> "undefined", value |-> Undefined]

FactoryUndefined ==
    [kind |-> "factory", deps |-> <<>>, raises |-> 0, returns |-> "undefined", value |-> Undefined]

\* instance(): provider: () => value
ValueProvider(value) ==
    [kind |-> "factory", deps |-> <<>>, raises |-> 0, returns |-> "value", value |-> value]

Providers ==
    {ClassProvider(<<>>)} \cup {ClassProvider(<<t>>) : t \in Tokens}
        \cup {FactoryRaising, FactoryUndefined}

Lifecycles == {"singleton", "transient"}

\* lifecycle: NativeJsServiceLifecycle = 'singleton'
DefaultLifecycle == "singleton"

(***************************************************************************)
(* State.                                                                  *)
(***************************************************************************)
VARIABLES
    containers,   \* container id -> [services, resolving]; the child exists once created
    nextId,       \* the number the next created object gets
    opCount,      \* operations performed so far
    since,        \* per container and token: the value last returned by resolve
                  \* since the token's last register/instance/clear (NoValue: none)
    inherited,    \* tokens whose child registration is the copy made by createChild
                  \* and whose root registration is the one it was copied from
    last,         \* what the last container operation was and what it observed
    web,          \* the router, and the window, history and document it works on
    nav,          \* what the last router operation was and what it observed
    custom,       \* the platform's custom element registry and the component registries
    reg,          \* what the last registration was and what it observed
    page,         \* the components of a document, their state, the storage
                  \* backends and the requests in flight
    act,          \* what the last operation on a component was
    client,       \* a data access client: the state it is bound to, its calls
                  \* in flight and the result of the call that settled last
    app           \* the applications created, the module's global container
                  \* and what its accessors last reported

diVars == <<containers, nextId, opCount, since, inherited, last>>
webVars == <<web, nav>>
registryVars == <<custom, reg>>
pageVars == <<page, act>>
dataVars == <<client>>
appVars == <<app>>
vars == <<containers, nextId, opCount, since, inherited, last, web, nav, custom, reg,
          page, act, client, app>>

(***************************************************************************)
(* Outcomes of a call: a returned value or a raised fault.                 *)
(***************************************************************************)
NoOut == [kind |-> "none", value |-> Undefined, token |-> "", error |-> 0]
Return(value) == [kind |-> "ok", value |-> value, token |-> "", error |-> 0]
UnregisteredFault(token) ==
    [kind |-> "unregistered", value |-> Undefined, token |-> token, error |-> 0]
CircularFault(token) ==
    [kind |-> "circular", value |-> Undefined, token |-> token, error |-> 0]
ProviderException(e) ==
    [kind |-> "thrown", value |-> Undefined, token |-> "", error |-> e]

IsFault(out) == out.kind \in {"unregistered", "circular", "thrown", "missingTemplate"}

\* new NativeJsDIContainer()
EmptyContainer == [services |-> <<>>, resolving |-> {}]

\* services.has(token)
has(c, token) == token \in DOMAIN c.services

\* services.set(token, registration)
MapSet(services, token, registration) ==
    [t \in DOMAIN services \cup {token} |->
        IF t = token THEN registration ELSE services[t]]

\* services.delete(token)
MapDelete(services, token) ==
    [t \in DOMAIN services \ {token} |-> services[t]]

(***************************************************************************)
(* register / singleton / transient / instance / clear / clearAll          *)
(* as functions of a container.                                            *)
(***************************************************************************)
\* the registration register() stores: { provider, lifecycle }, no instance
NewRegistration(provider, lifecycle) ==
    [provider |-> provider, lifecycle |-> lifecycle, instance |-> Undefined]

\* register() merging into the registration it finds, so that the cached
\* instance survives
register_KeepsInstance(c, token, provider, lifecycle) ==
    [c EXCEPT !.services =
        MapSet(@, token,
            [provider |-> provider, lifecycle |-> lifecycle,
             instance |-> IF token \in DOMAIN c.services
                          THEN c.services[token].instance ELSE Undefined])]

register(c, token, provider, lifecycle) ==
    [c EXCEPT !.services = MapSet(@, token, NewRegistration(provider, lifecycle))]

singleton(c, token, provider) == register(c, token, provider, "singleton")

transient(c, token, provider) == register(c, token, provider, "transient")

instance(c, token, value) ==
    [c EXCEPT !.services =
        MapSet(@, token,
            [provider |-> ValueProvider(value), lifecycle |-> "singleton", instance |-> value])]

clear(c, token) == [c EXCEPT !.services = MapDelete(@, token)]

clearAll(c) == [c EXCEPT !.services = <<>>]

\* createChild() copying the registration whole, cached instance included
CopiedRegistration_WithInstance(registration) == registration

\* the registration createChild() stores in the child for one of the parent's
CopiedRegistration(registration) ==
    [provider |-> registration.provider,
     lifecycle |-> registration.lifecycle,
     instance |-> Undefined]

\* a child that starts without registrations
createChild_Empty(c) == [services |-> <<>>, resolving |-> {}]

createChild(c) ==
    [services |-> [t \in DOMAIN c.services |-> CopiedRegistration(c.services[t])],
     resolving |-> {}]

(***************************************************************************)
(* resolve.  A call works on a context: the container's services and       *)
(* resolving set, the object counter, the outcome, and a record of what    *)
(* happened during the call (providers invoked, values returned by every   *)
(* resolve of the call, tokens re-entered while under construction, the    *)
(* tokens under construction when a provider raised).                      *)
(***************************************************************************)
Enter(c, id) ==
    [services |-> c.services, resolving |-> c.resolving, nextId |-> id,
     calls |-> <<>>, rets |-> <<>>, reentered |-> {}, raisedWhile |-> {},
     out |-> NoOut]

\* return value: the outcome, noted among the values the call's resolves returned
Returns(x, token, value) ==
    [x EXCEPT !.out = Return(value), !.rets = Append(@, <<token, value>>)]

Throws(x, fault) == [x EXCEPT !.out = fault]

\* the cache never consulted
IsCachedSingleton_Never(registration) == FALSE

\* line 106: a singleton with a cached instance
IsCachedSingleton(registration) ==
    registration.lifecycle = "singleton" /\ registration.instance # Undefined

\* a re-entered token answered with undefined instead of a fault
CircularOutcome_Lenient(x, token) == [x EXCEPT !.out = Return(Undefined)]

\* lines 111-113: the token is already being resolved
CircularOutcome(x, token) == Throws(x, CircularFault(token))

\* the instance cached whatever the lifecycle
CacheInstance_Always(x, token, registration, value) ==
    [x EXCEPT !.services[token].instance = value]

\* lines 121-123: cache singleton
CacheInstance(x, token, registration, value) ==
    IF registration.lifecycle = "singleton"
    THEN [x EXCEPT !.services[token].instance = value]
    ELSE x

\* the marker never released
ReleaseMarker_Never(x, token) == x

\* the marker released on the normal path only (no finally)
ReleaseMarker_OnSuccessOnly(x, token) ==
    IF IsFault(x.out) THEN x ELSE [x EXCEPT !.resolving = @ \ {token}]

\* line 127: finally { this.resolving.delete(token) }
ReleaseMarker(x, token) == [x EXCEPT !.resolving = @ \ {token}]

\* isClass: the container constructs a class with new and calls a factory
isClass(provider) == provider.kind = "class"

\* new provider(container): the value is the object under construction
Construct(x) ==
    [x EXCEPT !.out = Return(x.nextId), !.nextId = @ + 1]

\* provider(container): the value is what the factory returns
FactoryResult(x, provider) ==
    CASE provider.returns = "new" -> Construct(x)
      [] provider.returns = "value" -> [x EXCEPT !.out = Return(provider.value)]
      [] OTHER -> [x EXCEPT !.out = Return(Undefined)]

RECURSIVE resolve(_, _)
RECURSIVE RunBody(_, _, _)

\* the provider's body: resolve the dependencies in order, an exception of
\* a nested resolve propagating; then raise, if the body raises
RunBody(x, provider, i) ==
    IF i > Len(provider.deps)
    THEN IF provider.raises # 0
         THEN [x EXCEPT !.out = ProviderException(provider.raises),
                        !.raisedWhile = x.resolving]
         ELSE [x EXCEPT !.out = NoOut]
    ELSE LET y == resolve(x, provider.deps[i])
         IN IF IsFault(y.out) THEN y ELSE RunBody(y, provider, i + 1)

createInstance(x, provider) ==
    LET y == RunBody([x EXCEPT !.calls = Append(@, provider)], provider, 1)
    IN IF IsFault(y.out) THEN y
       ELSE IF isClass(provider) THEN Construct(y)
       ELSE FactoryResult(y, provider)

resolve(x, token) ==
    IF ~ has(x, token)
    THEN Throws(x, UnregisteredFault(token))
    ELSE LET registration == x.services[token]
         IN IF IsCachedSingleton(registration)
            THEN Returns(x, token, registration.instance)
            ELSE IF token \in x.resolving
            THEN CircularOutcome([x EXCEPT !.reentered = @ \cup {token}], token)
            ELSE LET marked == [x EXCEPT !.resolving = @ \cup {token}]
                     made == createInstance(marked, registration.provider)
                     done == IF IsFault(made.out)
                             THEN made
                             ELSE Returns(
                                     CacheInstance(made, token, registration, made.out.value),
                                     token, made.out.value)
                 IN ReleaseMarker(done, token)

\* tryResolve() turning every failure into an empty result
tryResolve_SwallowsFaults(x, token) ==
    IF ~ has(x, token)
    THEN [x EXCEPT !.out = Return(Undefined)]
    ELSE LET y == resolve(x, token)
         IN IF IsFault(y.out) THEN [y EXCEPT !.out = Return(Undefined)] ELSE y

tryResolve(x, token) ==
    IF ~ has(x, token)
    THEN [x EXCEPT !.out = Return(Undefined)]
    ELSE resolve(x, token)

(***************************************************************************)
(* The container as a state machine: one action per public operation, on   *)
(* the root container or on the child made by createChild().               *)
(***************************************************************************)
NoSince == [t \in Tokens |-> NoValue]

\* no provider was given to the operation
NoProvider ==
    [kind |-> "none", deps |-> <<>>, raises |-> 0, returns |-> "undefined", value |-> Undefined]

Observed(op, id, token, x, prevInstance) ==
    [op |-> op, id |-> id, token |-> token, given |-> NoProvider,
     out |-> x.out, calls |-> x.calls, rets |-> x.rets,
     reentered |-> x.reentered, raisedWhile |-> x.raisedWhile,
     prevSince |-> since[id], prevNextId |-> nextId,
     prevInstance |-> prevInstance]

Quiet(c) == Enter(c, nextId)

CachedInstance(c, token) ==
    IF has(c, token) THEN c.services[token].instance ELSE Undefined

Exists(id) == id \in DOMAIN containers

Budget == opCount < MaxOps

InitDI ==
    /\ containers = [id \in {"root"} |-> EmptyContainer]
    /\ nextId = 1
    /\ opCount = 0
    /\ since = [id \in ContainerIds |-> NoSince]
    /\ inherited = {}
    /\ last = [op |-> "init", id |-> "root", token |-> "", given |-> NoProvider,
               out |-> NoOut, calls |-> <<>>, rets |-> <<>>,
               reentered |-> {}, raisedWhile |-> {},
               prevSince |-> NoSince, prevNextId |-> 1,
               prevInstance |-> Undefined]

\* what a change of token's registration in container id does to the bookkeeping
Reregistered(id, token, provider) ==
    /\ since' = [since EXCEPT ![id][token] = NoValue]
    /\ inherited' = inherited \ {token}
    /\ opCount' = opCount + 1
    /\ last' = [Observed("register", id, token, Quiet(containers[id]),
                         CachedInstance(containers[id], token))
                    EXCEPT !.given = provider]

\* register(token, provider), the lifecycle left to its default
Register(id, token, provider) ==
    /\ Exists(id) /\ Budget
    /\ UNCHANGED <<webVars, registryVars, pageVars, dataVars, appVars>>
    /\ containers' = [containers EXCEPT ![id] = register(@, token, provider, DefaultLifecycle)]
    /\ Reregistered(id, token, provider)
    /\ UNCHANGED nextId

Singleton(id, token, provider) ==
    /\ Exists(id) /\ Budget
    /\ UNCHANGED <<webVars, registryVars, pageVars, dataVars, appVars>>
    /\ containers' = [containers EXCEPT ![id] = singleton(@, token, provider)]
    /\ Reregistered(id, token, provider)
    /\ UNCHANGED nextId

Transient(id, token, provider) ==
    /\ Exists(id) /\ Budget
    /\ UNCHANGED <<webVars, registryVars, pageVars, dataVars, appVars>>
    /\ containers' = [containers EXCEPT ![id] = transient(@, token, provider)]
    /\ Reregistered(id, token, provider)
    /\ UNCHANGED nextId

\* instance(token, value) with an object the caller has just made
InstanceObject(id, token) ==
    /\ Exists(id) /\ Budget
    /\ UNCHANGED <<webVars, registryVars, pageVars, dataVars, appVars>>
    /\ nextId <= MaxObjects
    /\ containers' = [containers EXCEPT ![id] = instance(@, token, nextId)]
    /\ nextId' = nextId + 1
    /\ since' = [since EXCEPT ![id][token] = NoValue]
    /\ inherited' = inherited \ {token}
    /\ opCount' = opCount + 1
    /\ last' = Observed("instance", id, token, Quiet(containers[id]),
                        CachedInstance(containers[id], token))

\* instance(token, undefined)
InstanceUndefined(id, token) ==
    /\ Exists(id) /\ Budget
    /\ UNCHANGED <<webVars, registryVars, pageVars, dataVars, appVars>>
    /\ containers' = [containers EXCEPT ![id] = instance(@, token, Undefined)]
    /\ since' = [since EXCEPT ![id][token] = NoValue]
    /\ inherited' = inherited \ {token}
    /\ opCount' = opCount + 1
    /\ last' = Observed("instance", id, token, Quiet(containers[id]),
                        CachedInstance(containers[id], token))
    /\ UNCHANGED nextId

Clear(id, token) ==
    /\ Exists(id) /\ Budget
    /\ UNCHANGED <<webVars, registryVars, pageVars, dataVars, appVars>>
    /\ containers' = [containers EXCEPT ![id] = clear(@, token)]
    /\ since' = [since EXCEPT ![id][token] = NoValue]
    /\ inherited' = inherited \ {token}
    /\ opCount' = opCount + 1
    /\ last' = Observed("clear", id, token, Quiet(containers[id]),
                        CachedInstance(containers[id], token))
    /\ UNCHANGED nextId

ClearAll(id) ==
    /\ Exists(id) /\ Budget
    /\ UNCHANGED <<webVars, registryVars, pageVars, dataVars, appVars>>
    /\ containers' = [containers EXCEPT ![id] = clearAll(@)]
    /\ since' = [since EXCEPT ![id] = NoSince]
    /\ inherited' = {}
    /\ opCount' = opCount + 1
    /\ last' = Observed("clearAll", id, "", Quiet(containers[id]), Undefined)
    /\ UNCHANGED nextId

\* root.createChild(); the model follows the child made last
CreateChild ==
    /\ Budget
    /\ UNCHANGED <<webVars, registryVars, pageVars, dataVars, appVars>>
    /\ containers' = [id \in ContainerIds |->
                        IF id = "root" THEN containers["root"]
                        ELSE createChild(containers["root"])]
    /\ since' = [since EXCEPT !["child"] = NoSince]
    /\ inherited' = DOMAIN containers["root"].services
    /\ opCount' = opCount + 1
    /\ last' = Observed("createChild", "root", "", Quiet(containers["root"]), Undefined)
    /\ UNCHANGED nextId

\* the values the call's resolves returned, as the latest value per token
RECURSIVE NoteReturns(_, _, _)
NoteReturns(row, rets, i) ==
    IF i > Len(rets) THEN row
    ELSE NoteReturns([row EXCEPT ![rets[i][1]] = rets[i][2]], rets, i + 1)

Finished(op, id, token, x) ==
    /\ x.nextId <= MaxObjects + 1
    /\ containers' = [containers EXCEPT
                         ![id] = [services |-> x.services, resolving |-> x.resolving]]
    /\ nextId' = x.nextId
    /\ since' = [since EXCEPT ![id] = NoteReturns(@, x.rets, 1)]
    /\ opCount' = opCount + 1
    /\ last' = Observed(op, id, token, x, CachedInstance(containers[id], token))
    /\ UNCHANGED inherited

Resolve(id, token) ==
    /\ Exists(id) /\ Budget
    /\ UNCHANGED <<webVars, registryVars, pageVars, dataVars, appVars>>
    /\ Finished("resolve", id, token, resolve(Quiet(containers[id]), token))

TryResolve(id, token) ==
    /\ Exists(id) /\ Budget
    /\ UNCHANGED <<webVars, registryVars, pageVars, dataVars, appVars>>
    /\ Finished("tryResolve", id, token, tryResolve(Quiet(containers[id]), token))

NextDI ==
    \/ \E id \in ContainerIds, token \in Tokens, provider \in Providers :
          Register(id, token, provider)
    \/ \E id \in ContainerIds, token \in Tokens, provider \in Providers :
          Singleton(id, token, provider)
    \/ \E id \in ContainerIds, token \in Tokens, provider \in Providers :
          Transient(id, token, provider)
    \/ \E id \in ContainerIds, token \in Tokens : InstanceObject(id, token)
    \/ \E id \in ContainerIds, token \in Tokens : InstanceUndefined(id, token)
    \/ \E id \in ContainerIds, token \in Tokens : Clear(id, token)
    \/ \E id \in ContainerIds : ClearAll(id)
    \/ CreateChild
    \/ \E id \in ContainerIds, token \in Tokens : Resolve(id, token)
    \/ \E id \in ContainerIds, token \in Tokens : TryResolve(id, token)

(***************************************************************************)
(* The router.  A path is the sequence of its segments, one per "/":       *)
(* "/" is <<"">>, "/users/42" is <<"users", "42">>, "/a/" is <<"a", "">>.  *)
(* A base path is a sequence of segments too: "" is <<>>, "/app" is        *)
(* <<"app">>, so that basePath + path is the concatenation.                *)
(***************************************************************************)
\* the parts of a path template: "/text", "/:name" and "/*"
Fixed(text) == [kind |-> "fixed", text |-> text]
Named(name) == [kind |-> "name", text |-> name]
Wildcard == [kind |-> "wild", text |-> "0"]

\* pattern.exec(): null, or a result with the captured groups
NoMatch == [ok |-> FALSE, groups |-> <<>>]
Matched(groups) == [ok |-> TRUE, groups |-> groups]
Capture(name, value, rest) ==
    IF rest.ok THEN Matched((name :> value) @@ rest.groups) ELSE rest

RECURSIVE MatchFrom(_, _, _, _)
RECURSIVE MatchWild(_, _, _, _, _)

\* parts i.. of the pattern against segments j.. of the path: a fixed part
\* takes the equal segment, a named part one non-empty segment, a wildcard
\* one or more segments (the longest run that lets the rest match)
MatchFrom(parts, i, path, j) ==
    IF i > Len(parts)
    THEN IF j > Len(path) THEN Matched(<<>>) ELSE NoMatch
    ELSE IF j > Len(path) THEN NoMatch
    ELSE CASE parts[i].kind = "fixed" ->
                  IF path[j] = parts[i].text
                  THEN MatchFrom(parts, i + 1, path, j + 1)
                  ELSE NoMatch
           [] parts[i].kind = "name" ->
                  IF path[j] # ""
                  THEN Capture(parts[i].text, <<path[j]>>,
                               MatchFrom(parts, i + 1, path, j + 1))
                  ELSE NoMatch
           [] OTHER -> MatchWild(parts, i, path, j, Len(path))

MatchWild(parts, i, path, j, k) ==
    IF k < j THEN NoMatch
    ELSE LET rest == MatchFrom(parts, i + 1, path, k + 1)
         IN IF rest.ok
            THEN Capture(parts[i].text, SubSeq(path, j, k), rest)
            ELSE MatchWild(parts, i, path, j, k - 1)

exec(pattern, pathname) == MatchFrom(pattern, 1, pathname, 1)

\* the fixed parts a base path contributes to a pattern
RECURSIVE BaseParts(_)
BaseParts(basePath) ==
    IF basePath = <<>> THEN <<>>
    ELSE <<Fixed(Head(basePath))>> \o BaseParts(Tail(basePath))

\* compileRoutes: one (pattern, route) entry per route, in declaration order
compileRoutes(basePath, routes) ==
    [i \in 1..Len(routes) |->
        [pattern |-> BaseParts(basePath) \o routes[i].pathname, route |-> routes[i]]]

NoRoute == [pathname |-> <<>>, componentName |-> ""]
NotFound == [found |-> FALSE, route |-> NoRoute, result |-> NoMatch]

\* the declaration order reversed: the last accepting route wins
RECURSIVE findMatchingRoute_LastWins(_, _, _)
findMatchingRoute_LastWins(patternToRoute, currentPathName, i) ==
    LET k == Len(patternToRoute) + 1 - i
    IN IF i > Len(patternToRoute) THEN NotFound
       ELSE LET result == exec(patternToRoute[k].pattern, currentPathName)
            IN IF result.ok
               THEN [found |-> TRUE, route |-> patternToRoute[k].route, result |-> result]
               ELSE findMatchingRoute_LastWins(patternToRoute, currentPathName, i + 1)

\* findMatchingRoute: the loop over patternToRoute.keys(), from entry i on
RECURSIVE findMatchingRoute(_, _, _)
findMatchingRoute(patternToRoute, currentPathName, i) ==
    IF i > Len(patternToRoute) THEN NotFound
    ELSE LET result == exec(patternToRoute[i].pattern, currentPathName)
         IN IF result.ok
            THEN [found |-> TRUE, route |-> patternToRoute[i].route, result |-> result]
            ELSE findMatchingRoute(patternToRoute, currentPathName, i + 1)

(***************************************************************************)
(* Route tables, locations and the other inputs of the model.              *)
(***************************************************************************)
\* components in one operation: those under the host when it begins and
\* those it creates
MaxComponents == 5
\* entries of the session history in one run
MaxHistory == 2
\* calls of start() that install listeners in one run
MaxStarts == 2

Route(pathname, componentName) == [pathname |-> pathname, componentName |-> componentName]

RouteTables ==
    { <<Route(<<Fixed("")>>, "n-home"), Route(<<Fixed("users"), Named("id")>>, "n-user")>>,
      <<Route(<<Fixed("a"), Wildcard>>, "n-section"), Route(<<Fixed("a"), Fixed("b")>>, "n-page")>>,
      <<Route(<<Fixed("a"), Fixed("b")>>, "n-page"), Route(<<Fixed("a"), Wildcard>>, "n-section")>>,
      <<Route(<<Fixed("")>>, "n-home"), Route(<<Fixed("old")>>, "n-redirect")>> }

BasePaths == {<<>>, <<"app">>}

\* locations of the page that builds a router without a configured base
\* path: /, /index.html, /app/, /app/index.html, /app/users, /old
PageLocations ==
    {<<"">>, <<"index.html">>, <<"app", "">>, <<"app", "index.html">>,
     <<"app", "users">>, <<"old">>}

\* paths given to navigateTo, carried by anchors, or found as the first location
Targets == {<<"">>, <<"users", "42">>, <<"nope">>, <<"a", "b">>, <<"a", "x">>, <<"old">>}

\* navigation state objects; NullState is the state of an entry that has none
EmptyState == "{}"
NullState == "null"
NavStates == {EmptyState, "s1"}

\* a[n-href] elements of the document outside the host, with their n-href
Anchors == {"users-link"}
\* a[n-href] elements that application code inserts later
LateAnchors == {"late-link"}
HrefOf(anchor) == <<"users", "42">>

\* tags of components that no route names
StandaloneTags == {"n-footer"}

\* the path a component of this tag navigates to in onInit, if it does
Redirects(tagName) == tagName = "n-redirect"
RedirectTarget == <<"">>

\* nodes under the host: what the page held before the router ran, or a component
StaticNode == [kind |-> "static", id |-> 0]
ComponentNode(id) == [kind |-> "component", id |-> id]

NoFault == [kind |-> "none", path |-> <<>>]
UnmatchedRouteFault(path) == [kind |-> "unmatched", path |-> path]

\* no entry of the session history
NoEntry == [path |-> <<>>, state |-> NullState]

\* the options of a router: a base path, or none
Configured(basePath) == [given |-> TRUE, basePath |-> basePath]
NotConfigured == [given |-> FALSE, basePath |-> <<>>]

\* the last segment of a path and the path without it
LastOf(pathname) == pathname[Len(pathname)]
Front(pathname) == SubSeq(pathname, 1, Len(pathname) - 1)

\* detection that only strips a trailing index document or slash
detectBasePath_StripOnly(pathname) ==
    IF LastOf(pathname) = "" \/ LastOf(pathname) = "index.html"
    THEN Front(pathname)
    ELSE pathname

\* detectBasePath: pathname is window.location.pathname, "/" being <<"">>
detectBasePath(pathname) ==
    IF LastOf(pathname) = "" \/ LastOf(pathname) = "index.html"
    THEN LET unindexed == IF LastOf(pathname) = "index.html" THEN Front(pathname)
                          ELSE pathname
         IN IF unindexed # <<>> /\ LastOf(unindexed) = "" THEN Front(unindexed)
            ELSE unindexed
    ELSE IF Len(pathname) > 1 THEN Front(pathname)
    ELSE <<>>

\* options?.basePath ?? this.detectBasePath()
BasePathOf(options, pathname) ==
    IF options.given THEN options.basePath ELSE detectBasePath(pathname)

\* new NativeRouter(registry, routes, { host, basePath }) on a page at `location`
NewWeb(routes, options, location, hostChildren) ==
    [patternToRoute |-> compileRoutes(BasePathOf(options, location), routes),
     basePath |-> BasePathOf(options, location),
     options |-> options,
     constructedAt |-> location,
     listeners |-> 0,
     location |-> location,
     entries |-> <<[path |-> location, state |-> NullState]>>,
     cursor |-> 1,
     host |-> hostChildren,
     created |-> 0,
     components |-> <<>>,
     handlers |-> [a \in Anchors \cup LateAnchors |-> 0],
     inserted |-> {},
     processed |-> {},
     out |-> NoFault,
     reported |-> <<>>,
     resolutions |-> <<>>,
     activations |-> <<>>,
     intents |-> <<>>,
     current |-> 0,
     traversed |-> NoEntry]

\* event.state || {}
StateOrEmpty(state) == IF state = NullState THEN EmptyState ELSE state

\* document.createElement(componentName): a component not yet given route data
createElement(w, tagName) ==
    [w EXCEPT !.created = @ + 1,
              !.components =
                  (w.created + 1 :>
                      [tagName |-> tagName, urlPatternResult |-> NoMatch,
                       routeState |-> EmptyState, path |-> w.location, inits |-> <<>>])
                  @@ @]

\* the route data set only after the component was inserted: its activation
\* runs without them
setRouteData_AfterInsertion(w, id, urlPatternResult, state) == w

setRouteData(w, id, urlPatternResult, state) ==
    [w EXCEPT !.components[id].urlPatternResult = urlPatternResult,
              !.components[id].routeState = state]

\* the component added after the children the host has
replaceChildren_Appends(w, id) == [w EXCEPT !.host = Append(@, ComponentNode(id))]

\* host.replaceChildren(component)
replaceChildren(w, id) == [w EXCEPT !.host = <<ComponentNode(id)>>]

\* an unmatched path answered by emptying the host
Unmatched_ClearsHost(w) ==
    [w EXCEPT !.host = <<>>, !.out = UnmatchedRouteFault(w.location)]

\* line 133: throw new Error("Failed to find matching route for: ...")
Unmatched(w) == [w EXCEPT !.out = UnmatchedRouteFault(w.location)]

\* what one route resolution did, noted when it ends or when it has swapped
\* the host's children: the state it was called with, and the navigateTo
\* call whose signal it handles (0: start() or a history notification)
Resolution(before, after, id, currentState) ==
    [path |-> before.location, id |-> id, fault |-> after.out,
     state |-> currentState, intent |-> before.current,
     tagName |-> IF id = 0 THEN "" ELSE after.components[id].tagName,
     result |-> IF id = 0 THEN NoMatch ELSE after.components[id].urlPatternResult,
     hostBefore |-> before.host, hostAfter |-> after.host,
     createdBefore |-> before.created,
     createdAfter |-> after.created]

Noted(before, after, id, currentState) ==
    [after EXCEPT !.resolutions = Append(@, Resolution(before, after, id, currentState))]

\* history.pushState(state, "", url)
pushState(w, state, url) ==
    [w EXCEPT !.entries = Append(SubSeq(@, 1, w.cursor), [path |-> url, state |-> state]),
              !.cursor = @ + 1,
              !.location = url]

\* overrideLinkClicks: every anchor not yet marked is marked and gets a click handler
overrideLinkClicks(w) ==
    [w EXCEPT !.handlers = [a \in DOMAIN @ |->
                               IF a \in (Anchors \cup w.inserted) \ w.processed
                               THEN @[a] + 1 ELSE @[a]],
              !.processed = Anchors \cup w.inserted]

RECURSIVE handleRouteChange(_, _)
RECURSIVE connectedCallback(_, _)
RECURSIVE navigateTo(_, _, _)
RECURSIVE Dispatch(_, _, _)

\* handleRouteChange
handleRouteChange(w, currentState) ==
    LET matchingRouteResult == findMatchingRoute(w.patternToRoute, w.location, 1)
        id == w.created + 1
    IN IF matchingRouteResult.found
       THEN LET component == createElement(w, matchingRouteResult.route.componentName)
                withData == setRouteData(component, id, matchingRouteResult.result, currentState)
                inserted == Noted(w, replaceChildren(withData, id), id, currentState)
            IN connectedCallback(inserted, id)
       ELSE Noted(w, Unmatched(w), 0, currentState)

\* connectedCallback, as far as the router is concerned: onInit gets the
\* route data the component holds, and may navigate
connectedCallback(w, id) ==
    LET component == w.components[id]
        called == [w EXCEPT !.components[id].inits =
                       Append(@, [urlPatternResult |-> component.urlPatternResult,
                                  state |-> component.routeState]),
                            !.activations =
                       Append(@, [id |-> id,
                                  urlPatternResult |-> component.urlPatternResult,
                                  state |-> component.routeState])]
    IN IF Redirects(component.tagName)
       THEN navigateTo(called, RedirectTarget, EmptyState)
       ELSE called

\* the n-url-change listener installed by start(); an exception of a
\* listener is reported by dispatchEvent, not raised to its caller
UrlChangeListener(w, state) ==
    LET handled == handleRouteChange(w, StateOrEmpty(state))
    IN IF handled.out.kind # "none"
       THEN [handled EXCEPT !.reported = Append(@, handled.out), !.out = NoFault]
       ELSE overrideLinkClicks(handled)

\* window.dispatchEvent(urlChangeEvent): the k listeners still to run
Dispatch(w, state, k) ==
    IF k = 0 THEN w ELSE Dispatch(UrlChangeListener(w, state), state, k - 1)

signalURLChange(w, state) == Dispatch(w, state, w.listeners)

\* the call noted among the navigateTo calls of the operation; the route
\* resolutions made until its signal has been handled are attributed to it
Intended(w, url, state) ==
    [w EXCEPT !.intents = Append(@, [url |-> url, state |-> state,
                                     listeners |-> w.listeners, returned |-> NoFault]),
              !.current = Len(w.intents) + 1]

\* what the call raises to its caller, noted when it returns
Returned(before, after, k) ==
    [after EXCEPT !.intents[k].returned = after.out, !.current = before.current]

\* the target pushed as it is given
fullUrl_Unprefixed(w, url) == url

\* line 165: url starts with "/", so the base path is prepended
fullUrl(w, url) == w.basePath \o url

\* navigateTo(url, state), url starting with "/"
navigateTo(w, url, state) ==
    LET called == Intended(w, url, state)
    IN Returned(w, signalURLChange(pushState(called, state, fullUrl(w, url)), state),
                called.current)

navigateToURL(w, url) == navigateTo(w, url, EmptyState)

\* start() subscribing and intercepting links before its first resolution
start_ListenersFirst(w) ==
    handleRouteChange(overrideLinkClicks([w EXCEPT !.listeners = @ + 1]), EmptyState)

\* start()
start(w) ==
    LET handled == handleRouteChange(w, EmptyState)
    IN IF handled.out.kind # "none"
       THEN handled
       ELSE overrideLinkClicks([handled EXCEPT !.listeners = @ + 1])

\* the click handlers of an anchor, the k still to run
RECURSIVE ClickHandlers(_, _, _)
ClickHandlers(w, anchor, k) ==
    IF k = 0 THEN w
    ELSE ClickHandlers(navigateToURL(w, HrefOf(anchor)), anchor, k - 1)

\* the popstate listeners installed by start(), the k still to run
RECURSIVE PopStateListeners(_, _, _)
PopStateListeners(w, state, k) ==
    IF k = 0 THEN w
    ELSE PopStateListeners(signalURLChange(w, StateOrEmpty(state)), state, k - 1)

\* the browser moves to another entry of the session history and notifies
traverse(w, delta) ==
    LET target == w.cursor + delta
        moved == [w EXCEPT !.cursor = target, !.location = w.entries[target].path,
                           !.traversed = w.entries[target]]
    IN PopStateListeners(moved, w.entries[target].state, w.listeners)

(***************************************************************************)
(* The router as a state machine.                                          *)
(***************************************************************************)
Begin(w) ==
    [w EXCEPT !.out = NoFault, !.reported = <<>>, !.resolutions = <<>>,
              !.activations = <<>>, !.intents = <<>>, !.current = 0,
              !.traversed = NoEntry]

\* the components under the host; the others are no longer referenced
Mounted(w) == {n.id : n \in {w.host[i] : i \in 1..Len(w.host)}} \ {0}

Collected(w) == [w EXCEPT !.components = [id \in Mounted(w) |-> @[id]]]

\* the number of components among the first i children of the host
Rank(host, i) == Cardinality({j \in 1..i : host[j].kind = "component"})

\* the components under the host numbered from 1 again, in the order of the
\* host's children: which number an object got when it was created is not
\* observable by the program
Renumbered(w) ==
    LET n == Rank(w.host, Len(w.host))
        at(k) == CHOOSE i \in 1..Len(w.host) :
                     w.host[i].kind = "component" /\ Rank(w.host, i) = k
    IN [w EXCEPT !.host = [i \in 1..Len(w.host) |->
                              IF w.host[i].kind = "component"
                              THEN ComponentNode(Rank(w.host, i))
                              ELSE w.host[i]],
                 !.components = [k \in 1..n |-> w.components[w.host[at(k)].id]],
                 !.created = n]

WithinBounds(w) ==
    /\ w.created <= MaxComponents
    /\ Len(w.entries) <= MaxHistory
    /\ w.listeners <= MaxStarts

NoNav == [op |-> "init", hostBefore |-> <<>>, createdBefore |-> 0]

Done(op, w) ==
    /\ WithinBounds(w)
    /\ web' = Renumbered(Collected(w))
    /\ nav' = [op |-> op, hostBefore |-> web.host, createdBefore |-> web.created]
    /\ UNCHANGED <<diVars, registryVars, pageVars, dataVars, appVars>>

InitWeb ==
    /\ \E routes \in RouteTables, hostChildren \in {<<>>, <<StaticNode>>} :
          \/ \E basePath \in BasePaths, first \in Targets :
                 web = NewWeb(routes, Configured(basePath), basePath \o first, hostChildren)
          \/ \E location \in PageLocations :
                 web = NewWeb(routes, NotConfigured, location, hostChildren)
    /\ nav = NoNav

IdleWeb ==
    /\ web = NewWeb(<<>>, Configured(<<>>), <<"">>, <<>>)
    /\ nav = NoNav

Start ==
    /\ web.listeners < MaxStarts
    /\ Done("start", start(Begin(web)))

NavigateTo(url, state) ==
    /\ Len(web.entries) < MaxHistory
    /\ Done("navigateTo", navigateTo(Begin(web), url, state))

\* a click on an anchor that has click handlers
ClickLink(anchor) ==
    /\ web.handlers[anchor] > 0
    /\ Done("click", ClickHandlers(Begin(web), anchor, web.handlers[anchor]))

Back ==
    /\ web.cursor > 1
    /\ Done("popstate", traverse(Begin(web), -1))

Forward ==
    /\ web.cursor < Len(web.entries)
    /\ Done("popstate", traverse(Begin(web), 1))

\* a component that is not routed: document.body.append(document.createElement(tagName)),
\* outside the host
AttachStandalone(tagName) ==
    /\ web.created < MaxComponents
    /\ Done("attach", connectedCallback(createElement(Begin(web), tagName), web.created + 1))

\* application code inserts an a[n-href] element into the document
InsertAnchor(anchor) ==
    /\ anchor \notin web.inserted
    /\ Done("insert", [Begin(web) EXCEPT !.inserted = @ \cup {anchor}])

\* a click on an anchor that was inserted later, with the handlers it has
ClickLateLink(anchor) ==
    /\ anchor \in web.inserted
    /\ Len(web.entries) < MaxHistory
    /\ Done("click", ClickHandlers(Begin(web), anchor, web.handlers[anchor]))

NextRouter ==
    \/ Start
    \/ \E tagName \in StandaloneTags : AttachStandalone(tagName)
    \/ \E url \in Targets, state \in NavStates : NavigateTo(url, state)
    \/ \E anchor \in Anchors : ClickLink(anchor)
    \/ Back
    \/ Forward

\* the router on a page whose application code inserts navigation links
NextLinks ==
    \/ NextRouter
    \/ \E anchor \in LateAnchors : InsertAnchor(anchor)
    \/ \E anchor \in LateAnchors : ClickLateLink(anchor)

(***************************************************************************)
(* The component registry and the platform's custom element registry.      *)
(***************************************************************************)
Registries == {"r1", "r2"}

\* the registry argument left out
NoRegistry == "none"

\* NativeJsDefaultComponents, by tag name
NativeJsDefaultComponents == <<"n-fetch-form", "n-submit-form", "n-modal", "n-list">>

\* tag names of the component classes of an application: those of two
\* routed components, one that does not start with "n-", and a class
\* without tagName
ComponentClasses == {"n-home", "n-user", "x-home", ""}

\* tagName.startsWith('n-')
StartsWithN(tagName) ==
    tagName \in {"n-home", "n-user"} \cup {NativeJsDefaultComponents[i] : i \in 1..Len(NativeJsDefaultComponents)}

NoRegistryFault == [kind |-> "none", tagName |-> ""]
MissingTagNameFault == [kind |-> "no-tagName", tagName |-> ""]
PrefixFault(tagName) == [kind |-> "prefix", tagName |-> tagName]
\* the platform's NotSupportedError: the name is already defined
NotSupportedError(tagName) == [kind |-> "already-defined", tagName |-> tagName]

\* the process at load: nothing defined, every registry as constructed
NewCustom ==
    [defined |-> {},
     registries |-> [r \in Registries |-> {}],
     registeredDefaults |-> {},
     defines |-> <<>>,
     out |-> NoRegistryFault]

\* customElements.define(tagName, componentClass)
define(c, tagName) ==
    LET called == [c EXCEPT !.defines =
                       Append(@, [tagName |-> tagName, already |-> tagName \in c.defined])]
    IN IF tagName \in c.defined
       THEN [called EXCEPT !.out = NotSupportedError(tagName)]
       ELSE [called EXCEPT !.defined = @ \cup {tagName}]

\* registerComponentClass(componentClass) on registry r
registerComponentClass(c, r, tagName) ==
    IF tagName = "" THEN [c EXCEPT !.out = MissingTagNameFault]
    ELSE IF ~ StartsWithN(tagName) THEN [c EXCEPT !.out = PrefixFault(tagName)]
    ELSE IF tagName \notin c.registries[r]
    THEN LET defined == define(c, tagName)
         IN IF defined.out.kind # "none" THEN defined
            ELSE [defined EXCEPT !.registries[r] = @ \cup {tagName}]
    ELSE c

\* registerDefaultComponents(registry?): the loop from component i on
RECURSIVE registerDefaultComponents(_, _, _)
registerDefaultComponents(c, registry, i) ==
    IF i > Len(NativeJsDefaultComponents) THEN c
    ELSE LET tagName == NativeJsDefaultComponents[i]
             next == IF registry # NoRegistry
                     THEN registerComponentClass(c, registry, tagName)
                     ELSE IF tagName \notin c.registeredDefaults /\ tagName \notin c.defined
                     THEN [define(c, tagName) EXCEPT !.registeredDefaults = @ \cup {tagName}]
                     ELSE c
         IN IF next.out.kind # "none" THEN next
            ELSE registerDefaultComponents(next, registry, i + 1)

NoRegistration ==
    [op |-> "init", registry |-> NoRegistry, tagName |-> "",
     out |-> NoRegistryFault, defines |-> <<>>, definedBefore |-> {}]

Registered(op, registry, tagName, c) ==
    /\ custom' = [c EXCEPT !.out = NoRegistryFault, !.defines = <<>>]
    /\ reg' = [op |-> op, registry |-> registry, tagName |-> tagName,
               out |-> c.out, defines |-> c.defines, definedBefore |-> custom.defined]
    /\ UNCHANGED <<diVars, webVars, pageVars, dataVars, appVars>>

InitRegistry ==
    /\ custom = NewCustom
    /\ reg = NoRegistration

RegisterComponentClass(r, tagName) ==
    /\ r \in Registries
    /\ Registered("registerComponentClass", r, tagName,
                  registerComponentClass(custom, r, tagName))

RegisterDefaultComponents(r) ==
    /\ r \in Registries
    /\ Registered("registerDefaultComponents", r, "",
                  registerDefaultComponents(custom, r, 1))

\* registerDefaultComponents() without a registry
RegisterDefaultComponentsDirectly ==
    /\ NoRegistry \notin Registries
    /\ Registered("registerDefaultComponents", NoRegistry, "",
                  registerDefaultComponents(custom, NoRegistry, 1))

NextRegistry ==
    \/ \E r \in Registries, tagName \in ComponentClasses : RegisterComponentClass(r, tagName)
    \/ \E r \in Registries : RegisterDefaultComponents(r)
    \/ RegisterDefaultComponentsDirectly

(***************************************************************************)
(* Components: the state manager (state.ts), the storage wrapper and the   *)
(* data service (service.ts, storage.ts) and the activation of a component *)
(* (connectedCallback).  A JSON text is what JSON.stringify made of a map, *)
(* a text that does not parse, or no text at all.                          *)
(***************************************************************************)
\* activations of one component in one run
MaxActivations == 2
\* state mutations made by application code in one run
MaxMutations == 2

ElementIds == {"e1", "e2"}

StorageKeys == {"k1"}
StorageTypes == {"session", "local"}

\* values of a state map; UndefinedValue is JavaScript's undefined
UndefinedValue == "undefined"
NullValue == "null"
StateValues == {"1", UndefinedValue}

NoItem == [kind |-> "none", json |-> <<>>]
InvalidJson == [kind |-> "invalid", json |-> <<>>]
Json(map) == [kind |-> "json", json |-> map]

\* JSON.stringify(map): a key whose value is undefined is left out
stringify(map) ==
    Json([k \in {j \in DOMAIN map : map[j] # UndefinedValue} |-> map[k]])

\* JSON.parse(text): the map, or an exception
parse(text) ==
    IF text.kind = "json" THEN [ok |-> TRUE, value |-> text.json]
    ELSE [ok |-> FALSE, value |-> <<>>]

\* map[key], undefined for a key the map does not have
ValueAt(map, key) == IF key \in DOMAIN map THEN map[key] ELSE UndefinedValue

\* NativeJsStorage.getBackend
getBackend(type) == IF type = "local" THEN "local" ELSE "session"

\* NativeJsStorage.get: null for a missing item and for a text that does not parse
storageGet(storage, type, key) ==
    LET raw == storage[getBackend(type)][key]
    IN IF raw.kind = "none" THEN [ok |-> FALSE, value |-> <<>>] ELSE parse(raw)

\* NativeJsStorage.set
storageSet(storage, type, key, value) ==
    [storage EXCEPT ![getBackend(type)][key] = stringify(value)]

Attrs(nFetch, nFetchKey, nStateKey, nStateStorage, nState) ==
    [nFetch |-> nFetch, nFetchKey |-> nFetchKey, nStateKey |-> nStateKey,
     nStateStorage |-> nStateStorage, nState |-> nState]

\* document.createElement or the parser: a component not yet connected
NewElement(attrs, dependencies) ==
    [attrs |-> attrs, dependencies |-> dependencies, connected |-> FALSE,
     gen |-> 0, managers |-> <<>>,
     templateRendered |-> FALSE, autoFetchInitiated |-> FALSE,
     urlPatternResult |-> NoMatch, routeState |-> EmptyState,
     props |-> <<>>, activations |-> 0, events |-> <<>>,
     keyed |-> attrs.nStateKey # "", data |-> 0, steps |-> <<>>,
     templateId |-> "tpl", content |-> <<>>, renders |-> 0]

\* parseConfig with a storage key of its own when the attribute is absent
parseConfig_DefaultKey(attrs) ==
    [mode |-> "storage",
     storageKey |-> IF attrs.nStateKey # "" THEN attrs.nStateKey ELSE "k1",
     storageType |-> IF attrs.nStateStorage # "" THEN attrs.nStateStorage ELSE "session"]

\* NativeJsState.parseConfig
parseConfig(attrs) ==
    IF attrs.nStateKey # ""
    THEN [mode |-> "storage",
          storageKey |-> attrs.nStateKey,
          storageType |-> IF attrs.nStateStorage # "" THEN attrs.nStateStorage ELSE "session"]
    ELSE [mode |-> "attribute", storageKey |-> "", storageType |-> ""]

\* NativeJsState.initialize: the map the manager starts with
initialize(p, attrs, config) ==
    IF config.mode = "storage" /\ config.storageKey # ""
    THEN LET stored == storageGet(p.storage, config.storageType, config.storageKey)
         IN IF stored.ok THEN stored.value ELSE <<>>
    ELSE IF attrs.nState.kind = "none" THEN <<>>
    ELSE LET parsed == parse(attrs.nState)
         IN IF parsed.ok THEN parsed.value ELSE <<>>

\* new NativeJsState(element): the element's next manager
NewState(p, e) ==
    LET el == p.elements[e]
        config == parseConfig(el.attrs)
    IN [p EXCEPT !.elements[e].gen = el.gen + 1,
                 !.elements[e].managers =
                     (el.gen + 1 :> [config |-> config,
                                     cache |-> initialize(p, el.attrs, config)]) @@ @]

\* persist() writing the state attribute whatever the mode
persist_AttributeOnly(p, e, gen) ==
    [p EXCEPT !.elements[e].attrs.nState = stringify(p.elements[e].managers[gen].cache)]

\* NativeJsState.persist, of manager gen of element e
persist(p, e, gen) ==
    LET manager == p.elements[e].managers[gen]
    IN IF manager.config.mode = "storage" /\ manager.config.storageKey # ""
       THEN [p EXCEPT !.storage = storageSet(@, manager.config.storageType,
                                             manager.config.storageKey, manager.cache)]
       ELSE [p EXCEPT !.elements[e].attrs.nState = stringify(manager.cache)]

\* NativeJsState.set
set(p, e, gen, key, value) ==
    persist([p EXCEPT !.elements[e].managers[gen].cache = MapSet(@, key, value)], e, gen)

\* NativeJsState.setAll: { ...this.cache, ...data }
setAll(p, e, gen, data) ==
    persist([p EXCEPT !.elements[e].managers[gen].cache =
                [k \in DOMAIN @ \cup DOMAIN data |->
                    IF k \in DOMAIN data THEN data[k] ELSE @[k]]], e, gen)

\* NativeJsState.replace
replace(p, e, gen, data) ==
    persist([p EXCEPT !.elements[e].managers[gen].cache = data], e, gen)

\* delete this.cache[key] without writing the backing store
remove_CacheOnly(p, e, gen, key) ==
    [p EXCEPT !.elements[e].managers[gen].cache = MapDelete(@, key)]

\* NativeJsState.remove
remove(p, e, gen, key) ==
    persist([p EXCEPT !.elements[e].managers[gen].cache = MapDelete(@, key)], e, gen)

\* NativeJsState.clear (the name clear is the container's)
clearState(p, e, gen) ==
    persist([p EXCEPT !.elements[e].managers[gen].cache = <<>>], e, gen)

\* NativeJsState.getAll, has, getMode
getAll(p, e, gen) == p.elements[e].managers[gen].cache
hasKey(p, e, gen, key) == key \in DOMAIN p.elements[e].managers[gen].cache
getMode(p, e, gen) == p.elements[e].managers[gen].config.mode

\* NativeJsState.get, through this.state
get(p, e, key) ==
    ValueAt(p.elements[e].managers[p.elements[e].gen].cache, key)

\* an event of the auto-fetch protocol, noted in the order it happens
Event(p, e, event) == [p EXCEPT !.elements[e].events = Append(@, event)]

Protocol(kind, key, value, error) ==
    [kind |-> kind, key |-> key, value |-> value, error |-> error]

\* this._state?.set(key, value) of the auto-fetch protocol
ProtocolSet(p, e, key, value) ==
    Event(set(p, e, p.elements[e].gen, key, value), e, Protocol("set", key, value, ""))

\* the guard left out: every activation fetches
AlreadyInitiated_Never(el) == FALSE

\* line 249: if (this._autoFetchInitiated) return
AlreadyInitiated(el) == el.autoFetchInitiated

\* lines 258-259: set loading state
SetLoading(p, e, stateKey) ==
    ProtocolSet(ProtocolSet(p, e, stateKey \o "Loading", "true"),
                e, stateKey \o "Error", NullValue)

\* this._data.fetch(fetchUrl, { stateKey }): the request leaves, the data
\* service holding the manager it was built with
Requested(p, e, stateKey) ==
    Event([p EXCEPT !.requests = Append(@, [element |-> e, manager |-> p.elements[e].data,
                                            stateKey |-> stateKey])],
          e, Protocol("request", stateKey, "", ""))

\* handleAutoFetch, up to the await
handleAutoFetch(p, e) ==
    LET el == p.elements[e]
        stateKey == IF el.attrs.nFetchKey # "" THEN el.attrs.nFetchKey ELSE "data"
    IN IF AlreadyInitiated(el) THEN p
       ELSE IF el.attrs.nFetch = "" THEN p
       ELSE Requested(SetLoading([p EXCEPT !.elements[e].autoFetchInitiated = TRUE],
                                 e, stateKey),
                      e, stateKey)

\* what the transport answers
OkResponse == [ok |-> TRUE, data |-> "payload", error |-> NullValue]
\* a 2xx answer that is not JSON: no data, no error
EmptyResponse == [ok |-> TRUE, data |-> NullValue, error |-> NullValue]
HttpError == [ok |-> FALSE, data |-> NullValue, error |-> "HTTP 500"]
NetworkFailure == [ok |-> FALSE, data |-> NullValue, error |-> "Failed to fetch"]
Responses == {OkResponse, EmptyResponse, HttpError, NetworkFailure}

\* NativeJsDataService.fetch, from the response on: the payload stored
\* through the manager the service was built with
fetched(p, request, response) ==
    IF request.stateKey # "" /\ response.ok
    THEN Event(set(p, request.element, request.manager, request.stateKey, response.data),
               request.element, Protocol("store", request.stateKey, response.data, ""))
    ELSE p

\* the loading state left as it is when the request failed
UpdateLoading_OnSuccessOnly(p, e, stateKey, response) ==
    IF response.ok THEN ProtocolSet(p, e, stateKey \o "Loading", "false") ELSE p

\* lines 264-267: update loading/error state
UpdateLoading(p, e, stateKey, response) ==
    LET loaded == ProtocolSet(p, e, stateKey \o "Loading", "false")
    IN IF ~ response.ok
       THEN ProtocolSet(loaded, e, stateKey \o "Error", response.error)
       ELSE loaded

\* the managers still referenced: this._state and those of services with a
\* request in flight
Referenced(p, e) ==
    {p.elements[e].gen} \cup
        {p.requests[i].manager : i \in {j \in 1..Len(p.requests) : p.requests[j].element = e}}

Released(p) ==
    [p EXCEPT !.elements =
        [e \in ElementIds |->
            [@[e] EXCEPT !.managers = [g \in Referenced(p, e) \cap DOMAIN @ |-> @[g]]]]]

\* handleAutoFetch, after the await: request i is answered
handleAutoFetchResumed(p, i, response) ==
    LET request == p.requests[i]
        e == request.element
        answered == [p EXCEPT !.requests =
                        SubSeq(@, 1, i - 1) \o SubSeq(@, i + 1, Len(@))]
        updated == UpdateLoading(fetched(answered, request, response),
                                 e, request.stateKey, response)
    IN Released(Event(updated, e,
                      Protocol("onDataFetched", request.stateKey, response.data,
                               response.error)))

\* a declared token resolved whether it is registered or not
Injectable_Always(x, token) == TRUE

\* line 221: this._container.has(token)
Injectable(x, token) == has(x, token)

\* an activation under way: the page, the container's resolve context and
\* the fault that ended the activation, if any
Activating(p, x, out) == [p |-> p, x |-> x, out |-> out]

\* injectDependencies: the loop over the declared tokens, from token i on
RECURSIVE injectDependencies(_, _, _)
injectDependencies(a, e, i) ==
    LET dependencies == a.p.elements[e].dependencies
    IN IF ~ a.p.globalContainer \/ i > Len(dependencies) THEN a
       ELSE IF Injectable(a.x, dependencies[i])
       THEN LET y == resolve(a.x, dependencies[i])
            IN IF IsFault(y.out) THEN Activating(a.p, y, y.out)
               ELSE injectDependencies(
                        Activating([a.p EXCEPT !.elements[e].props =
                                       MapSet(@, dependencies[i], y.out.value)],
                                   y, NoOut),
                        e, i + 1)
       ELSE injectDependencies(a, e, i + 1)

\* Template with id "..." not found
MissingTemplateFault(templateId) ==
    [kind |-> "missingTemplate", value |-> Undefined, token |-> templateId, error |-> 0]

\* lines 292-296: a template is declared, not yet rendered, and no element of
\* the document has its id
TemplateMissing(p, e) ==
    /\ p.elements[e].templateId # ""
    /\ ~ p.elements[e].templateRendered
    /\ p.elements[e].templateId \notin p.templates

\* renderTemplate cloning the template on every activation
renderTemplate_Unguarded(p, e) ==
    IF p.elements[e].templateId = "" \/ TemplateMissing(p, e) THEN p
    ELSE [p EXCEPT !.elements[e].content = <<"clone">>,
                   !.elements[e].renders = @ + 1,
                   !.elements[e].templateRendered = TRUE]

\* renderTemplate, lines 284-305; its throw is TemplateMissing
renderTemplate(p, e) ==
    IF p.elements[e].templateId = "" \/ p.elements[e].templateRendered THEN p
    ELSE IF TemplateMissing(p, e) THEN p
    ELSE [p EXCEPT !.elements[e].content = <<"clone">>,
                   !.elements[e].renders = @ + 1,
                   !.elements[e].templateRendered = TRUE]

\* the key the component's auto-fetch stores under
FetchKey(el) == IF el.attrs.nFetchKey # "" THEN el.attrs.nFetchKey ELSE "data"

\* onInit: what the hook can observe of the loading state
onInit(p, e) ==
    Event(p, e, Protocol("onInit", FetchKey(p.elements[e]),
                         get(p, e, FetchKey(p.elements[e]) \o "Loading"), ""))

\* new NativeJsDataService({ state: this._state }): the service keeps the
\* manager it is given
NewDataService(p, e) == [p EXCEPT !.elements[e].data = p.elements[e].gen]

\* a step of the activation begins
Step(p, e, name) == [p EXCEPT !.elements[e].steps = Append(@, name)]

\* the user hook called before the auto-fetch is started
componentConnected_InitFirst(p, x, e) ==
    LET stated == NewState(Step([p EXCEPT !.elements[e].steps = <<>>], e, "state"), e)
        bound == NewDataService(Step(stated, e, "data"), e)
        injected == injectDependencies(Activating(Step(bound, e, "inject"), x, NoOut), e, 1)
    IN IF IsFault(injected.out) THEN injected
       ELSE LET rendered == renderTemplate(Step(injected.p, e, "render"), e)
                hooked == onInit(Step(rendered, e, "onInit"), e)
            IN Activating(handleAutoFetch(Step(hooked, e, "autoFetch"), e),
                          injected.x, NoOut)

\* connectedCallback, lines 190-209
componentConnected(p, x, e) ==
    LET stated == NewState(Step([p EXCEPT !.elements[e].steps = <<>>], e, "state"), e)
        bound == NewDataService(Step(stated, e, "data"), e)
        injected == injectDependencies(Activating(Step(bound, e, "inject"), x, NoOut), e, 1)
    IN IF IsFault(injected.out) THEN injected
       ELSE IF TemplateMissing(injected.p, e)
       THEN Activating(Step(injected.p, e, "render"), injected.x,
                       MissingTemplateFault(injected.p.elements[e].templateId))
       ELSE LET rendered == renderTemplate(Step(injected.p, e, "render"), e)
                fetching == handleAutoFetch(Step(rendered, e, "autoFetch"), e)
            IN Activating(onInit(Step(fetching, e, "onInit"), e), injected.x, NoOut)

(***************************************************************************)
(* Documents: two components, the storage backends and the global          *)
(* container the model starts from.                                        *)
(***************************************************************************)
EmptyStorage == [type \in StorageTypes |-> [key \in StorageKeys |-> NoItem]]

\* containers an application has configured before its components activate
PreparedContainers ==
    { register(EmptyContainer, "auth", ClassProvider(<<>>), "singleton"),
      register(transient(EmptyContainer, "auth", ClassProvider(<<"api">>)),
               "api", FactoryUndefined, "singleton"),
      register(EmptyContainer, "api", FactoryRaising, "singleton") }

Document(e1, e2, storage) ==
    [elements |-> [e \in ElementIds |-> IF e = "e1" THEN e1 ELSE e2],
     storage |-> storage,
     requests |-> <<>>,
     mutations |-> 0,
     globalContainer |-> FALSE,
     templates |-> {"tpl"}]

Documents ==
    { \* <n-user-list n-fetch="/api/users" n-fetch-key="users"> beside
      \* <n-counter n-state='{"count":"1"}'>
      Document(NewElement(Attrs("/api/users", "users", "", "", NoItem), <<"auth", "api">>),
               NewElement(Attrs("", "", "", "", Json([count |-> "1"])), <<>>),
               EmptyStorage),
      \* two components bound to the same key of the session storage, one
      \* of them fetching
      Document(NewElement(Attrs("/api/data", "", "k1", "", NoItem), <<>>),
               NewElement(Attrs("", "", "k1", "", NoItem), <<>>),
               EmptyStorage),
      \* the same key in the local and in the session storage, the latter
      \* holding a map already
      Document(NewElement(Attrs("", "", "k1", "local", NoItem), <<>>),
               NewElement(Attrs("", "", "k1", "session", NoItem), <<>>),
               [EmptyStorage EXCEPT !["session"]["k1"] = Json([count |-> "1"])]),
      \* a stored text and a state attribute that do not parse
      Document(NewElement(Attrs("", "", "k1", "", NoItem), <<>>),
               NewElement(Attrs("/api/data", "", "", "", InvalidJson), <<>>),
               [EmptyStorage EXCEPT !["session"]["k1"] = InvalidJson]) }

NoAct ==
    [op |-> "init", element |-> "", out |-> NoOut, registered |-> {}, rets |-> <<>>,
     key |-> "", value |-> ""]

\* documents whose templates may be missing and whose second component
\* declares none
TemplateDocuments ==
    { [Document(NewElement(Attrs("", "", "", "", NoItem), dependencies),
                [NewElement(Attrs("", "", "", "", NoItem), <<>>) EXCEPT !.templateId = id],
                EmptyStorage) EXCEPT !.templates = templates] :
          dependencies \in {<<>>, <<"api">>}, id \in {"", "tpl"}, templates \in {{}, {"tpl"}} }

InitPageOf(documents, prepared) ==
    /\ \E document \in documents, global \in BOOLEAN, container \in prepared :
          /\ page = [document EXCEPT !.globalContainer = global]
          /\ containers = [id \in {"root"} |-> IF global THEN container ELSE EmptyContainer]
    /\ act = NoAct
    /\ nextId = 1
    /\ opCount = 0
    /\ since = [id \in ContainerIds |-> NoSince]
    /\ inherited = {}
    /\ last = [op |-> "init", id |-> "root", token |-> "", given |-> NoProvider,
               out |-> NoOut, calls |-> <<>>, rets |-> <<>>,
               reentered |-> {}, raisedWhile |-> {},
               prevSince |-> NoSince, prevNextId |-> 1,
               prevInstance |-> Undefined]

InitPage == InitPageOf(Documents, PreparedContainers)

IdlePage ==
    /\ page = Document(NewElement(Attrs("", "", "", "", NoItem), <<>>),
                       NewElement(Attrs("", "", "", "", NoItem), <<>>), EmptyStorage)
    /\ act = NoAct

\* the element is inserted into the document
Attach(e) ==
    /\ ~ page.elements[e].connected
    /\ page.elements[e].activations < MaxActivations
    /\ LET a == componentConnected(
                    [page EXCEPT !.elements[e].connected = TRUE,
                                 !.elements[e].activations = @ + 1],
                    Enter(containers["root"], nextId), e)
       IN /\ a.x.nextId <= MaxObjects + 1
          /\ page' = Released(a.p)
          /\ containers' = [containers EXCEPT
                               !["root"] = [services |-> a.x.services,
                                            resolving |-> a.x.resolving]]
          /\ nextId' = a.x.nextId
          /\ act' = [NoAct EXCEPT !.op = "attach", !.element = e, !.out = a.out,
                                  !.registered = DOMAIN containers["root"].services,
                                  !.rets = a.x.rets]
    /\ UNCHANGED <<opCount, since, inherited, last, webVars, registryVars, dataVars, appVars>>

\* the element is removed from the document; disconnectedCallback does nothing
Detach(e) ==
    /\ page.elements[e].connected
    /\ page.elements[e].activations < MaxActivations
    /\ page' = [page EXCEPT !.elements[e].connected = FALSE]
    /\ act' = [NoAct EXCEPT !.op = "detach", !.element = e]
    /\ UNCHANGED <<diVars, webVars, registryVars, dataVars, appVars>>

\* application code calls this.state.set(key, value)
SetState(e, key, value) ==
    /\ page.elements[e].gen > 0
    /\ page.mutations < MaxMutations
    /\ page' = [set(page, e, page.elements[e].gen, key, value)
                   EXCEPT !.mutations = @ + 1]
    /\ act' = [NoAct EXCEPT !.op = "set", !.element = e, !.key = key, !.value = value]
    /\ UNCHANGED <<diVars, webVars, registryVars, dataVars, appVars>>

\* application code sets or removes the n-state-key attribute of the element
SetStateKeyAttribute(e, value) ==
    /\ page.elements[e].attrs.nStateKey # value
    /\ page.mutations < MaxMutations
    /\ page' = [page EXCEPT !.elements[e].attrs.nStateKey = value,
                            !.elements[e].keyed = @ \/ value # "",
                            !.mutations = @ + 1]
    /\ act' = [NoAct EXCEPT !.op = "attribute", !.element = e, !.value = value]
    /\ UNCHANGED <<diVars, webVars, registryVars, dataVars, appVars>>

\* the transport answers request i
Respond(i, response) ==
    /\ i \in 1..Len(page.requests)
    /\ page' = handleAutoFetchResumed(page, i, response)
    /\ act' = [NoAct EXCEPT !.op = "respond", !.element = page.requests[i].element,
                            !.key = page.requests[i].stateKey, !.value = response.data]
    /\ UNCHANGED <<diVars, webVars, registryVars, dataVars, appVars>>

\* application code appends a node of its own to the component's content
WriteContent(e) ==
    /\ page.mutations < MaxMutations
    /\ page' = [page EXCEPT !.elements[e].content = Append(@, "own"),
                            !.mutations = @ + 1]
    /\ act' = [NoAct EXCEPT !.op = "content", !.element = e]
    /\ UNCHANGED <<diVars, webVars, registryVars, dataVars, appVars>>

\* a <template> element with the given id is inserted into the document
InsertTemplate(id) ==
    /\ id \notin page.templates
    /\ page' = [page EXCEPT !.templates = @ \cup {id}]
    /\ act' = [NoAct EXCEPT !.op = "template", !.value = id]
    /\ UNCHANGED <<diVars, webVars, registryVars, dataVars, appVars>>

\* application code calls this.state.setAll(data)
SetAll(e, data) ==
    /\ page.elements[e].gen > 0
    /\ page.mutations < MaxMutations
    /\ page' = [setAll(page, e, page.elements[e].gen, data) EXCEPT !.mutations = @ + 1]
    /\ act' = [NoAct EXCEPT !.op = "setAll", !.element = e]
    /\ UNCHANGED <<diVars, webVars, registryVars, dataVars, appVars>>

\* application code calls this.state.replace(data)
Replace(e, data) ==
    /\ page.elements[e].gen > 0
    /\ page.mutations < MaxMutations
    /\ page' = [replace(page, e, page.elements[e].gen, data) EXCEPT !.mutations = @ + 1]
    /\ act' = [NoAct EXCEPT !.op = "replace", !.element = e]
    /\ UNCHANGED <<diVars, webVars, registryVars, dataVars, appVars>>

\* application code calls this.state.remove(key)
Remove(e, key) ==
    /\ page.elements[e].gen > 0
    /\ page.mutations < MaxMutations
    /\ page' = [remove(page, e, page.elements[e].gen, key) EXCEPT !.mutations = @ + 1]
    /\ act' = [NoAct EXCEPT !.op = "remove", !.element = e, !.key = key]
    /\ UNCHANGED <<diVars, webVars, registryVars, dataVars, appVars>>

\* application code calls this.state.clear()
ClearState(e) ==
    /\ page.elements[e].gen > 0
    /\ page.mutations < MaxMutations
    /\ page' = [clearState(page, e, page.elements[e].gen) EXCEPT !.mutations = @ + 1]
    /\ act' = [NoAct EXCEPT !.op = "clear", !.element = e]
    /\ UNCHANGED <<diVars, webVars, registryVars, dataVars, appVars>>

\* application code calls get, getAll, has or getMode of this.state
ReadOps == {"get", "getAll", "has", "getMode"}

Read(e, op, key) ==
    /\ page.elements[e].gen > 0
    /\ page' = page
    /\ act' = [NoAct EXCEPT !.op = op, !.element = e, !.key = key,
                            !.value = IF op = "get" THEN get(page, e, key)
                                      ELSE IF op = "getMode"
                                      THEN getMode(page, e, page.elements[e].gen)
                                      ELSE IF op = "has"
                                      THEN IF hasKey(page, e, page.elements[e].gen, key)
                                           THEN "true" ELSE "false"
                                      ELSE ""]
    /\ UNCHANGED <<diVars, webVars, registryVars, dataVars, appVars>>

UserKeys == {"count"}

\* keys and maps application code writes
WrittenKeys == {"count", "other"}
WrittenMaps == { ("count" :> "2") @@ ("other" :> "1"), ("count" :> UndefinedValue) }

\* documents of components without auto-fetch: two on one key of the session
\* storage; the same key in the local and in the session storage, the latter
\* holding a map already; an inline state beside a stored text that does not
\* parse
StateDocuments ==
    { Document(NewElement(Attrs("", "", "k1", "", NoItem), <<>>),
               NewElement(Attrs("", "", "k1", "", NoItem), <<>>),
               EmptyStorage),
      Document(NewElement(Attrs("", "", "k1", "local", NoItem), <<>>),
               NewElement(Attrs("", "", "k1", "session", NoItem), <<>>),
               [EmptyStorage EXCEPT !["session"]["k1"] = Json([count |-> "1"])]),
      Document(NewElement(Attrs("", "", "", "", Json([count |-> "1"])), <<>>),
               NewElement(Attrs("", "", "k1", "", NoItem), <<>>),
               [EmptyStorage EXCEPT !["session"]["k1"] = InvalidJson]) }

\* positions in the list of requests in flight: an activation issues at most one
RequestIndexes == 1..(MaxActivations * Cardinality(ElementIds))

NextPage ==
    \/ \E e \in ElementIds : Attach(e)
    \/ \E e \in ElementIds : Detach(e)
    \/ \E e \in ElementIds, key \in UserKeys, value \in StateValues : SetState(e, key, value)
    \/ \E i \in RequestIndexes, response \in Responses : Respond(i, response)

\* the life of components whose n-state-key attribute is changed meanwhile
NextAttributes ==
    \/ NextPage
    \/ \E e \in ElementIds, value \in StorageKeys \cup {""} : SetStateKeyAttribute(e, value)

\* components whose state application code reads and writes
NextState ==
    \/ \E e \in ElementIds : Attach(e)
    \/ \E e \in ElementIds : Detach(e)
    \/ \E e \in ElementIds, key \in WrittenKeys, value \in StateValues : SetState(e, key, value)
    \/ \E e \in ElementIds, data \in WrittenMaps : SetAll(e, data)
    \/ \E e \in ElementIds, data \in WrittenMaps : Replace(e, data)
    \/ \E e \in ElementIds, key \in WrittenKeys : Remove(e, key)
    \/ \E e \in ElementIds : ClearState(e)
    \/ \E e \in ElementIds, op \in ReadOps, key \in {"count"} : Read(e, op, key)

\* the life of components whose template may be missing and whose content
\* application code writes to
NextTemplates ==
    \/ \E e \in ElementIds : Attach(e)
    \/ \E e \in ElementIds : Detach(e)
    \/ \E e \in ElementIds : WriteContent(e)
    \/ \E id \in {"tpl"} : InsertTemplate(id)

(***************************************************************************)
(* The data access client (NativeJsDataService): fetch, submit and delete  *)
(* over a transport that may answer, fail, or stay silent.                 *)
(***************************************************************************)
MaxCalls == 2
CallIds == 1..MaxCalls

\* options.timeout absent or 0: `!timeout`
NoTimeout == 0
Timeouts == {NoTimeout, 5000}

\* error: null
NoError == <<>>
\* data: null, and the value `null` as a JSON body
NullData == [kind |-> "null", error |-> "", message |-> ""]
\* a body response.json() rejects
Unparsable == [kind |-> "invalid", error |-> "", message |-> ""]
\* JSON objects; "" is an absent (falsy) property
JsonObjects == [kind : {"object"}, error : {"", "denied"}, message : {"", "try later"}]

Statuses == {200, 404}
HttpResponses ==
    [status : Statuses, json : {TRUE}, body : JsonObjects \cup {NullData, Unparsable}]
        \cup [status : Statuses, json : {FALSE}, body : {Unparsable}]

\* response.ok
IsOk(response) == response.status \in 200..299

\* `HTTP ${response.status}`
StatusText(status) == <<"HTTP " \o ToString(status)>>

\* what fetch() of the platform and JSON.stringify raise
FetchRejection == [isError |-> TRUE, message |-> "Failed to fetch"]
AbortRejection == [isError |-> TRUE, message |-> "The operation was aborted."]
StringifyError == [isError |-> TRUE, message |-> "Converting circular structure to JSON"]
NoRejection == [isError |-> FALSE, message |-> ""]

NoResult == [ok |-> FALSE, status |-> 0 - 1, data |-> NullData, error |-> NoError]

\* how an async function ends: its promise resolves to a result or rejects
Resolved(result) == [kind |-> "resolved", result |-> result, failure |-> NoRejection]
Rejected(failure) == [kind |-> "rejected", result |-> NoResult, failure |-> failure]
NoOutcome == [kind |-> "none", result |-> NoResult, failure |-> NoRejection]

\* the kinds of call: fetch(url, {stateKey, timeout}), submit(url, data,
\* {timeout}), delete(url, {timeout})
NoCall ==
    [phase |-> "none", method |-> "", timeout |-> NoTimeout, stateKey |-> "",
     serializable |-> TRUE, origin |-> "", httpMethod |-> ""]
CallKinds ==
    { [NoCall EXCEPT !.method = "fetch", !.httpMethod = "GET", !.timeout = t,
                     !.stateKey = k] :
          t \in Timeouts, k \in {"", "data"} }
        \cup { [NoCall EXCEPT !.method = "submit", !.httpMethod = "POST", !.timeout = t,
                              !.serializable = s] :
                   t \in Timeouts, s \in BOOLEAN }
        \cup { [NoCall EXCEPT !.method = "delete", !.httpMethod = "DELETE",
                              !.timeout = t] : t \in Timeouts }

\* post, put, patch: this.submit(url, data, { ...options, method })
Shorthands == {"POST", "PUT", "PATCH"}
shorthand(verb, timeout, serializable) ==
    [NoCall EXCEPT !.method = "submit", !.httpMethod = verb, !.timeout = timeout,
                   !.serializable = serializable]

\* handleAutoFetch: this._data.fetch(fetchUrl, { stateKey })
AutoFetchCall ==
    [NoCall EXCEPT !.method = "fetch", !.httpMethod = "GET", !.stateKey = "data"]

SettledCall == [NoCall EXCEPT !.phase = "settled"]

NewClient(bound) ==
    [bound |-> bound, stored |-> NullData, writes |-> 0, issued |-> 0,
     calls |-> [id \in CallIds |-> NoCall],
     settled |-> [call |-> NoCall, cause |-> "none", response |-> <<>>,
                  outcome |-> NoOutcome]]

\* the catch block of parseResponse
parseResponse_Caught(response) ==
    [data |-> NullData,
     error |-> IF IsOk(response) THEN NoError ELSE StatusText(response.status)]

\* parseResponse, lines 136-162
parseResponse(response) ==
    IF ~ response.json THEN parseResponse_Caught(response)
    ELSE IF response.body.kind = "invalid" THEN parseResponse_Caught(response)
    ELSE IF IsOk(response) THEN [data |-> response.body, error |-> NoError]
    \* json.error of null raises
    ELSE IF response.body.kind = "null" THEN parseResponse_Caught(response)
    ELSE [data |-> response.body,
          error |-> IF response.body.error # "" THEN <<response.body.error>>
                    ELSE IF response.body.message # "" THEN <<response.body.message>>
                    ELSE StatusText(response.status)]

\* the rest of the try block once the transport has answered
Answered(response) ==
    LET parsed == parseResponse(response)
    IN Resolved([ok |-> IsOk(response), status |-> response.status,
                 data |-> IF IsOk(response) THEN parsed.data ELSE NullData,
                 error |-> parsed.error])

\* a fault left to propagate to the caller
Catch_Rethrow(outcome) == outcome

\* the catch block of fetch, submit and delete
Catch(outcome) ==
    IF outcome.kind = "rejected"
    THEN Resolved([ok |-> FALSE, status |-> 0, data |-> NullData,
                   error |-> IF outcome.failure.isError THEN <<outcome.failure.message>>
                             ELSE <<"Unknown error">>])
    ELSE outcome

\* the result stored whatever the answer's status
StoreResult_Always(c, call, response) ==
    IF call.method = "fetch" /\ call.stateKey # "" /\ c.bound
    THEN [c EXCEPT !.stored = parseResponse(response).data, !.writes = @ + 1]
    ELSE c

\* fetch only: this.state.set(options.stateKey, data)
StoreResult(c, call, response) ==
    IF call.method = "fetch" /\ call.stateKey # "" /\ c.bound /\ IsOk(response)
    THEN [c EXCEPT !.stored = parseResponse(response).data, !.writes = @ + 1]
    ELSE c

\* fetchWithTimeout arms a timer only when a timeout is given
Armed(call) == call.timeout # NoTimeout

Settle(c, id, cause, response, outcome) ==
    [c EXCEPT !.calls[id] = SettledCall,
              !.settled = [call |-> c.calls[id], cause |-> cause, response |-> response,
                           outcome |-> outcome]]

\* fetch, submit, delete up to the await of the transport
Issue(c, call) ==
    LET id == c.issued + 1
        begun == [c EXCEPT !.issued = id, !.calls[id] = [call EXCEPT !.phase = "pending"]]
    IN IF call.method = "submit" /\ ~ call.serializable
       THEN Settle(begun, id, "stringify", <<>>, Catch(Rejected(StringifyError)))
       ELSE begun

\* a call by application code
Request(kind) ==
    /\ client.issued < MaxCalls
    /\ client' = Issue(client, [kind EXCEPT !.origin = "application"])
    /\ UNCHANGED <<diVars, webVars, registryVars, pageVars, appVars>>

\* a call of post, put or patch by application code
Shorthand(verb, timeout, serializable) ==
    /\ client.issued < MaxCalls
    /\ client' = Issue(client, [shorthand(verb, timeout, serializable)
                                   EXCEPT !.origin = "application"])
    /\ UNCHANGED <<diVars, webVars, registryVars, pageVars, appVars>>

\* the call a component with n-fetch makes when it is activated
AutoFetch ==
    /\ client.issued < MaxCalls
    /\ client.bound
    /\ client' = Issue(client, [AutoFetchCall EXCEPT !.origin = "component"])
    /\ UNCHANGED <<diVars, webVars, registryVars, pageVars, appVars>>

\* the transport answers call id
TransportResponds(id, response) ==
    /\ client.calls[id].phase = "pending"
    /\ client' = Settle(StoreResult(client, client.calls[id], response), id,
                        "response", <<response>>, Catch(Answered(response)))
    /\ UNCHANGED <<diVars, webVars, registryVars, pageVars, appVars>>

\* the transport fails call id
TransportFails(id) ==
    /\ client.calls[id].phase = "pending"
    /\ client' = Settle(client, id, "failure", <<>>, Catch(Rejected(FetchRejection)))
    /\ UNCHANGED <<diVars, webVars, registryVars, pageVars, appVars>>

\* the timer of call id fires: controller.abort() rejects the transport's promise
TimerFires(id) ==
    /\ client.calls[id].phase = "pending"
    /\ Armed(client.calls[id])
    /\ client' = Settle(client, id, "abort", <<>>, Catch(Rejected(AbortRejection)))
    /\ UNCHANGED <<diVars, webVars, registryVars, pageVars, appVars>>

InitClient == \E bound \in BOOLEAN : client = NewClient(bound)

IdleClient == client = NewClient(FALSE)

NextData ==
    \/ \E kind \in CallKinds : Request(kind)
    \/ \E verb \in Shorthands, timeout \in Timeouts, serializable \in BOOLEAN :
           Shorthand(verb, timeout, serializable)
    \/ AutoFetch
    \/ \E id \in CallIds, response \in HttpResponses : TransportResponds(id, response)
    \/ \E id \in CallIds : TransportFails(id)
    \/ \E id \in CallIds : TimerFires(id)

(***************************************************************************)
(* Applications and the module's global container (_globalContainer).      *)
(***************************************************************************)
MaxApps == 2
MaxRuns == 2
AppIds == 1..MaxApps

\* _globalContainer = null
NoContainer == "none"
\* a container made by the caller and passed as options.container
GivenContainer == "given"
\* createNativeJsDIContainer() of application a
OwnContainer(a) == "own" \o ToString(a)

NoObservation ==
    [op |-> "none", out |-> "", container |-> NoContainer, runs |-> 0, app |-> 0]

NewModule ==
    [created |-> 0,
     container |-> [a \in AppIds |-> NoContainer],
     starts |-> [a \in AppIds |-> 0],
     active |-> 0,
     runs |-> 0,
     globalContainer |-> NoContainer,
     seen |-> NoObservation]

\* createNativeJs, lines 528-545
createNativeJs(m, given) ==
    LET a == m.created + 1
        container == IF given THEN GivenContainer ELSE OwnContainer(a)
    IN [m EXCEPT !.created = a,
                 !.container[a] = container,
                 !.globalContainer = container]

\* NativeJs.run, lines 464-468; router.start() is counted per application
run(m, a) ==
    [m EXCEPT !.active = a,
              !.globalContainer = m.container[a],
              !.starts[a] = @ + 1,
              !.runs = @ + 1]

Reported(m, op, out, container) ==
    [m EXCEPT !.seen = [op |-> op, out |-> out, container |-> container, runs |-> m.runs,
                        app |-> 0]]

\* tryGetContainer, lines 60-62
tryGetContainer(m) ==
    IF m.globalContainer = NoContainer
    THEN Reported(m, "tryGetContainer", "undefined", NoContainer)
    ELSE Reported(m, "tryGetContainer", "container", m.globalContainer)

\* getContainer, lines 50-55
getContainer(m) ==
    IF m.globalContainer = NoContainer
    THEN Reported(m, "getContainer", "raised", NoContainer)
    ELSE Reported(m, "getContainer", "container", m.globalContainer)

\* inject, lines 68-70: getContainer().resolve(token)
inject(m) ==
    IF m.globalContainer = NoContainer
    THEN Reported(m, "inject", "raised", NoContainer)
    ELSE Reported(m, "inject", "resolve", m.globalContainer)

\* connectedCallback of a component that the router of application a has
\* created: this._container = _globalContainer, the container
\* injectDependencies resolves from
activated(m, a) ==
    [Reported(m, "activate", "container", m.globalContainer) EXCEPT !.seen.app = a]

CreateNativeJs(given) ==
    /\ app.created < MaxApps
    /\ app' = [createNativeJs(app, given) EXCEPT !.seen = NoObservation]
    /\ UNCHANGED <<diVars, webVars, registryVars, pageVars, dataVars>>

Run(a) ==
    /\ a <= app.created
    /\ app.runs < MaxRuns
    /\ app' = [run(app, a) EXCEPT !.seen = NoObservation]
    /\ UNCHANGED <<diVars, webVars, registryVars, pageVars, dataVars>>

TryGetContainer ==
    /\ app' = tryGetContainer(app)
    /\ UNCHANGED <<diVars, webVars, registryVars, pageVars, dataVars>>

GetContainer ==
    /\ app' = getContainer(app)
    /\ UNCHANGED <<diVars, webVars, registryVars, pageVars, dataVars>>

Inject ==
    /\ app' = inject(app)
    /\ UNCHANGED <<diVars, webVars, registryVars, pageVars, dataVars>>

\* a navigation of application a, which has been run, activates a component
Activate(a) ==
    /\ a <= app.created
    /\ app.starts[a] >= 1
    /\ app' = activated(app, a)
    /\ UNCHANGED <<diVars, webVars, registryVars, pageVars, dataVars>>

InitModule == app = NewModule

IdleApp == app = NewModule

NextApp ==
    \/ \E given \in BOOLEAN : CreateNativeJs(given)
    \/ \E a \in AppIds : Run(a)
    \/ TryGetContainer
    \/ GetContainer
    \/ Inject
    \/ \E a \in AppIds : Activate(a)

(***************************************************************************)
(* Specifications.                                                         *)
(***************************************************************************)
InitContainers ==
    /\ InitDI
    /\ IdleWeb
    /\ InitRegistry
    /\ IdlePage
    /\ IdleClient
    /\ IdleApp

InitRouter ==
    /\ InitDI
    /\ InitWeb
    /\ InitRegistry
    /\ IdlePage
    /\ IdleClient
    /\ IdleApp

InitRegistries ==
    /\ InitDI
    /\ IdleWeb
    /\ InitRegistry
    /\ IdlePage
    /\ IdleClient
    /\ IdleApp

InitComponents ==
    /\ InitPage
    /\ IdleWeb
    /\ InitRegistry
    /\ IdleClient
    /\ IdleApp

SpecRegistry == InitRegistries /\ [][NextRegistry]_vars

SpecPage == InitComponents /\ [][NextPage]_vars

InitAttributes ==
    /\ InitPage
    /\ IdleWeb
    /\ InitRegistry
    /\ IdleClient
    /\ IdleApp

SpecAttributes == InitAttributes /\ [][NextAttributes]_vars

InitState ==
    /\ InitPageOf(StateDocuments, {EmptyContainer})
    /\ IdleWeb
    /\ InitRegistry
    /\ IdleClient
    /\ IdleApp

SpecState == InitState /\ [][NextState]_vars

InitTemplates ==
    /\ InitPageOf(TemplateDocuments, PreparedContainers)
    /\ IdleWeb
    /\ InitRegistry
    /\ IdleClient
    /\ IdleApp

SpecTemplates == InitTemplates /\ [][NextTemplates]_vars

SpecDI == InitContainers /\ [][NextDI]_vars

SpecRouter == InitRouter /\ [][NextRouter]_vars

InitLinks ==
    /\ InitDI
    /\ InitWeb
    /\ InitRegistry
    /\ IdlePage
    /\ IdleClient
    /\ IdleApp

SpecLinks == InitLinks /\ [][NextLinks]_vars

InitData ==
    /\ InitDI
    /\ IdleWeb
    /\ InitRegistry
    /\ IdlePage
    /\ InitClient
    /\ IdleApp

SpecData == InitData /\ [][NextData]_vars

\* a timer that is armed fires unless the call settles first; nothing makes
\* the transport answer
InitDataLive ==
    /\ InitDI
    /\ IdleWeb
    /\ InitRegistry
    /\ IdlePage
    /\ InitClient
    /\ IdleApp

SpecDataLive ==
    /\ InitDataLive
    /\ [][NextData]_vars
    /\ \A id \in CallIds : WF_vars(TimerFires(id))

InitApp ==
    /\ InitDI
    /\ IdleWeb
    /\ InitRegistry
    /\ IdlePage
    /\ IdleClient
    /\ InitModule

SpecApp == InitApp /\ [][NextApp]_vars


(***************************************************************************)
(* Properties of the container.                                            *)
(***************************************************************************)
WasResolve == last.op \in {"resolve", "tryResolve"}

Here == containers[last.id]

LifecycleOf(c, token) == c.services[token].lifecycle

\* C1: for a token registered as singleton, every resolve of it (the call
\* itself or a nested resolve made by a provider) returns the value returned
\* by the previous resolve of it since its last register/instance/clear.
C1_SingletonIdentity ==
    WasResolve =>
        \A i \in 1..Len(last.rets) :
            LET t == last.rets[i][1]
                v == last.rets[i][2]
            IN LifecycleOf(Here, t) = "singleton" =>
                /\ last.prevSince[t] # NoValue => v = last.prevSince[t]
                /\ \A j \in 1..(i - 1) : last.rets[j][1] = t => last.rets[j][2] = v

\* a singleton built by a class provider is resolved a second time
C1_Witness ==
    /\ last.op = "resolve"
    /\ last.out.kind = "ok"
    /\ LifecycleOf(Here, last.token) = "singleton"
    /\ isClass(Here.services[last.token].provider)
    /\ last.prevSince[last.token] \in Objects

\* C2: a transient registration never holds a cached instance, every
\* resolve of a transient token invokes its provider, and the object a
\* class provider constructs for it did not exist before the call and is
\* returned by no other resolve.
C2_TransientFresh ==
    /\ \A id \in DOMAIN containers : \A t \in DOMAIN containers[id].services :
           LifecycleOf(containers[id], t) = "transient"
               => containers[id].services[t].instance = Undefined
    /\ (WasResolve /\ has(Here, last.token)
            /\ LifecycleOf(Here, last.token) = "transient") =>
           /\ Len(last.calls) >= 1
           /\ last.calls[1] = Here.services[last.token].provider
    /\ WasResolve =>
           \A i \in 1..Len(last.rets) :
               LET t == last.rets[i][1]
                   v == last.rets[i][2]
               IN (LifecycleOf(Here, t) = "transient"
                       /\ isClass(Here.services[t].provider)) =>
                      /\ v >= last.prevNextId
                      /\ v # last.prevSince[t]
                      /\ \A j \in 1..Len(last.rets) : j # i => last.rets[j][2] # v

\* a transient token is resolved again after it returned an object
C2_Witness ==
    /\ last.op = "resolve"
    /\ last.out.kind = "ok"
    /\ LifecycleOf(Here, last.token) = "transient"
    /\ last.prevSince[last.token] \in Objects
    /\ last.out.value \in Objects

\* C3: when a resolve call re-enters a token that is still under
\* construction, the call fails with the circular-dependency fault naming
\* that token.
C3_CircularFault ==
    (WasResolve /\ last.reentered # {}) =>
        /\ last.out.kind = "circular"
        /\ last.reentered = {last.out.token}

\* a transient token re-entered through another token's provider
C3_Witness ==
    /\ last.op = "resolve"
    /\ last.out = CircularFault(last.token)
    /\ LifecycleOf(Here, last.token) = "transient"
    /\ Len(last.calls) = 2

BothResolved(t) ==
    /\ t \in inherited
    /\ LifecycleOf(containers["root"], t) = "singleton"
    /\ since["root"][t] # NoValue
    /\ since["child"][t] # NoValue

\* C4 as claimed: for every token with singleton lifecycle in the parent,
\* the instance the child resolves differs from the one the parent resolves.
C4_ChildAlwaysDistinct ==
    \A t \in Tokens :
        (BothResolved(t) /\ since["root"][t] \in Objects /\ since["child"][t] \in Objects)
            => since["child"][t] # since["root"][t]

\* a resolve in one container leaves the other container as it was
ResolveLeavesOthers ==
    (opCount' = opCount + 1 /\ last'.op \in {"resolve", "tryResolve"}) =>
        \A id \in DOMAIN containers \ {last'.id} :
            /\ containers'[id] = containers[id]
            /\ since'[id] = since[id]

ChildDistinctWhenConstructed ==
    \A t \in Tokens : BothResolved(t) =>
        LET provider == containers["root"].services[t].provider
        IN /\ isClass(provider) => since["child"][t] # since["root"][t]
           /\ provider.returns = "value" =>
                  /\ since["child"][t] = provider.value
                  /\ since["root"][t] = provider.value

\* C4 amended: the child's instance differs from the parent's when the
\* token's provider constructs a new object per invocation; a token
\* registered with instance(value) resolves to that same value in both;
\* a resolve in one container changes nothing in the other.
C4_ChildDistinctAmended ==
    [] ChildDistinctWhenConstructed /\ [][ResolveLeavesOthers]_vars

\* parent and child have both resolved a singleton built by a class provider
C4_Witness ==
    \E t \in Tokens :
        /\ BothResolved(t)
        /\ isClass(containers["root"].services[t].provider)
        /\ since["root"][t] \in Objects
        /\ since["child"][t] \in Objects
        /\ last.id = "child"

\* right after createChild() the child holds, for exactly the parent's
\* tokens, the parent's provider and lifecycle and no instance
SnapshotAtCreation ==
    last.op = "createChild" =>
        /\ DOMAIN containers["child"].services = DOMAIN containers["root"].services
        /\ \A t \in DOMAIN containers["root"].services :
               /\ containers["child"].services[t].provider =
                      containers["root"].services[t].provider
               /\ containers["child"].services[t].lifecycle =
                      containers["root"].services[t].lifecycle
               /\ containers["child"].services[t].instance = Undefined

\* a registration, instance, clear or clearAll on one container changes
\* no registration and no cached instance of the other; createChild
\* changes nothing in the parent
OthersKeepRegistrations ==
    /\ (opCount' = opCount + 1 /\ last'.op \in {"register", "instance", "clear", "clearAll"}) =>
           \A id \in DOMAIN containers \ {last'.id} : containers'[id] = containers[id]
    /\ (opCount' = opCount + 1 /\ last'.op = "createChild") =>
           containers'["root"] = containers["root"]

\* C27: createChild() gives the child a copy of the parent's
\* registrations as they are at that moment, and from then on a register,
\* instance, clear or clearAll on either container leaves the other
\* container's registrations and cached instances unchanged.
C27_ChildIsSnapshot ==
    [] SnapshotAtCreation /\ [][OthersKeepRegistrations]_vars

\* a token was cleared in the child while the parent keeps its
\* registration and the instance it has cached
C27_Witness ==
    /\ last.op = "clear"
    /\ last.id = "child"
    /\ ~ has(containers["child"], last.token)
    /\ has(containers["root"], last.token)
    /\ containers["root"].services[last.token].instance \in Objects

\* C29: between container operations no token of any container is marked
\* as resolving, whatever way the resolve calls ended; and after a resolve
\* that failed, the token resolves without fault as soon as it is
\* registered with a provider that resolves nothing.
C29_NoMarkerLeftBehind ==
    /\ \A id \in DOMAIN containers : containers[id].resolving = {}
    /\ (WasResolve /\ IsFault(last.out) /\ has(Here, last.token)) =>
           LET fixed == register(Here, last.token, ClassProvider(<<>>), "singleton")
           IN ~ IsFault(resolve(Quiet(fixed), last.token).out)

\* a resolve of a singleton token ended with the circular-dependency
\* fault raised two calls deep
C29_Witness ==
    /\ last.op = "resolve"
    /\ last.out.kind = "circular"
    /\ last.reentered # {}
    /\ LifecycleOf(Here, last.token) = "singleton"
    /\ Len(last.calls) >= 2
    /\ Here.resolving = {}

\* C5: after register(token, provider, lifecycle) the registration holds
\* the given provider and no instance, and the next resolve(token) invokes
\* that provider and does not return the instance cached before.
C5_RegisterReplaces ==
    last.op = "register" =>
        LET next == resolve(Quiet(Here), last.token)
        IN /\ Here.services[last.token].provider = last.given
           /\ Here.services[last.token].instance = Undefined
           /\ Len(next.calls) >= 1
           /\ next.calls[1] = last.given
           /\ (next.out.kind = "ok" /\ last.prevInstance # Undefined)
                  => next.out.value # last.prevInstance

\* a token holding a cached instance is registered again
C5_Witness ==
    /\ last.op = "register"
    /\ last.prevInstance \in Objects
    /\ isClass(last.given)

ResolveUnregisteredFails ==
    (last.op = "resolve" /\ ~ has(Here, last.token))
        => last.out = UnregisteredFault(last.token)

TryResolveAsResolve ==
    \A id \in DOMAIN containers : \A t \in DOMAIN containers[id].services :
        tryResolve(Quiet(containers[id]), t) = resolve(Quiet(containers[id]), t)

\* C6 as claimed: resolve of an unregistered token raises the
\* unregistered-service fault; tryResolve returns an empty result exactly
\* when the token is unregistered; on a registered token tryResolve does
\* what resolve does.
C6_TryResolveEmptyIffUnregistered ==
    /\ ResolveUnregisteredFails
    /\ last.op = "tryResolve" =>
           (last.out = Return(Undefined) <=> ~ has(Here, last.token))
    /\ TryResolveAsResolve

\* C6 amended: tryResolve returns an empty result, invoking no provider,
\* whenever the token is unregistered; on a registered token it does what
\* resolve does, so it returns an empty result there exactly when resolve
\* does (a provider yielding undefined).
C6_TryResolveAmended ==
    /\ ResolveUnregisteredFails
    /\ (last.op = "tryResolve" /\ ~ has(Here, last.token)) =>
           /\ last.out = Return(Undefined)
           /\ last.calls = <<>>
    /\ (last.op = "tryResolve" /\ has(Here, last.token)
            /\ last.out = Return(Undefined)) =>
           Here.services[last.token].provider.returns # "new"
    /\ TryResolveAsResolve

\* tryResolve of a registered token fails with the circular-dependency fault
C6_Witness ==
    /\ last.op = "tryResolve"
    /\ has(Here, last.token)
    /\ last.out.kind = "circular"

\* C7: when a provider raises during a resolve call, its exception is the
\* call's outcome, no token that was under construction holds an instance
\* or a resolving marker afterwards, and a later resolve of each of them
\* invokes its provider again.
C7_ProviderExceptionPropagates ==
    (WasResolve /\ last.raisedWhile # {}) =>
        /\ last.out = ProviderException(last.calls[Len(last.calls)].raises)
        /\ last.token \in last.raisedWhile
        /\ \A t \in last.raisedWhile :
               /\ Here.services[t].instance = Undefined
               /\ t \notin Here.resolving
               /\ LET again == resolve(Quiet(Here), t)
                  IN /\ Len(again.calls) >= 1
                     /\ again.calls[1] = Here.services[t].provider

\* a singleton's provider fails because the provider of its dependency raised
C7_Witness ==
    /\ last.op = "resolve"
    /\ last.out.kind = "thrown"
    /\ Cardinality(last.raisedWhile) = 2
    /\ LifecycleOf(Here, last.token) = "singleton"

\* C39: a resolve of a singleton token that a resolve has already returned
\* a value for since the token's last register/instance/clear invokes no
\* provider, whatever that value was.
C39_SingletonProviderOnce ==
    (/\ WasResolve
     /\ has(Here, last.token)
     /\ LifecycleOf(Here, last.token) = "singleton"
     /\ last.prevSince[last.token] # NoValue) =>
        last.calls = <<>>

(***************************************************************************)
(* Properties of the router.                                               *)
(***************************************************************************)
Accepts(i, path) == exec(web.patternToRoute[i].pattern, path).ok

Accepting(path) == {i \in 1..Len(web.patternToRoute) : Accepts(i, path)}

ResolutionsOfLastOperation == {web.resolutions[k] : k \in 1..Len(web.resolutions)}

ComponentsUnder(host) == {i \in 1..Len(host) : host[i].kind = "component"}

\* C8: the component a route resolution creates is the one of the first
\* route, in declaration order, whose pattern accepts the path, and its
\* route data are that pattern's captured segments; no earlier route
\* accepts the path, whatever later routes do.
C8_FirstMatchWins ==
    \A r \in ResolutionsOfLastOperation :
        r.id # 0 =>
            \E i \in Accepting(r.path) :
                /\ \A j \in 1..(i - 1) : ~ Accepts(j, r.path)
                /\ r.tagName = web.patternToRoute[i].route.componentName
                /\ r.result = exec(web.patternToRoute[i].pattern, r.path)

\* with /a/* declared before /a/b, the path /a/b has selected /a/*
C8_Witness ==
    /\ Len(web.patternToRoute) = 2
    /\ web.patternToRoute[1].route.pathname = <<Fixed("a"), Wildcard>>
    /\ web.patternToRoute[2].route.pathname = <<Fixed("a"), Fixed("b")>>
    /\ web.location = web.basePath \o <<"a", "b">>
    /\ nav.op = "navigateTo"
    /\ \E r \in ResolutionsOfLastOperation :
           /\ r.tagName = "n-section"
           /\ r.result.groups["0"] = <<"b">>
           /\ Accepting(r.path) = {1, 2}

\* C9: a route resolution for a path that no pattern accepts raises the
\* unmatched-route fault for that path, creates no component and leaves
\* the host's children as they were.
C9_UnmatchedRouteFault ==
    /\ \A r \in ResolutionsOfLastOperation :
           Accepting(r.path) = {} =>
               /\ r.fault = UnmatchedRouteFault(r.path)
               /\ r.id = 0
               /\ r.createdAfter = r.createdBefore
               /\ r.hostAfter = r.hostBefore
    /\ (/\ ResolutionsOfLastOperation # {}
        /\ \A r \in ResolutionsOfLastOperation : Accepting(r.path) = {}) =>
           /\ web.created = nav.createdBefore
           /\ web.host = nav.hostBefore

\* a navigation to /nope while a routed component is mounted
C9_Witness ==
    /\ nav.op = "navigateTo"
    /\ web.location = web.basePath \o <<"nope">>
    /\ ComponentsUnder(web.host) # {}
    /\ \E r \in ResolutionsOfLastOperation : r.fault.kind = "unmatched"

\* C10: the host never has more than one routed component as child, and
\* each successful resolution leaves the component it created as the
\* host's only child.
C10_AtMostOneRoutedComponent ==
    /\ Cardinality(ComponentsUnder(web.host)) <= 1
    /\ \A r \in ResolutionsOfLastOperation :
           r.id # 0 => r.hostAfter = <<ComponentNode(r.id)>>

\* a history notification has replaced a mounted component by a new one
C10_Witness ==
    /\ nav.op = "popstate"
    /\ Cardinality(ComponentsUnder(web.host)) = 1
    /\ \E r \in ResolutionsOfLastOperation :
           /\ r.id # 0
           /\ ComponentsUnder(r.hostBefore) # {}

ActivationsOfLastOperation == {web.activations[k] : k \in 1..Len(web.activations)}

RoutedIds == {r.id : r \in ResolutionsOfLastOperation} \ {0}

FirstAccepting(path) ==
    CHOOSE i \in Accepting(path) : \A j \in Accepting(path) : i <= j

\* the state carried by the navigation a resolution belongs to: the state
\* given to navigateTo, the state of the history entry moved to, or none
NavigationState(r) ==
    IF r.intent # 0 THEN StateOrEmpty(web.intents[r.intent].state)
    ELSE IF nav.op = "popstate" THEN StateOrEmpty(web.traversed.state)
    ELSE EmptyState

\* C11: every activation of a routed component passes to onInit the match
\* result of the first accepting pattern for the path of the resolution
\* that created it and the state of that navigation, both set before the
\* component was inserted; a component that no resolution created receives
\* null and an empty object.
C11_RouteDataBeforeActivation ==
    /\ \A r \in ResolutionsOfLastOperation :
           r.id # 0 =>
               /\ r.state = NavigationState(r)
               /\ \E a \in ActivationsOfLastOperation : a.id = r.id
               /\ \A a \in ActivationsOfLastOperation :
                      a.id = r.id =>
                          /\ a.urlPatternResult =
                                 exec(web.patternToRoute[FirstAccepting(r.path)].pattern, r.path)
                          /\ a.state = r.state
    /\ \A a \in ActivationsOfLastOperation :
           a.id \notin RoutedIds =>
               /\ a.urlPatternResult = NoMatch
               /\ a.state = EmptyState

\* navigateTo("/users/42", s1) has activated a component with id = "42" and s1
C11_Witness ==
    /\ nav.op = "navigateTo"
    /\ \E r \in ResolutionsOfLastOperation :
           /\ r.id # 0
           /\ r.state = "s1"
           /\ \E a \in ActivationsOfLastOperation :
                  /\ a.id = r.id
                  /\ a.state = "s1"
                  /\ a.urlPatternResult = Matched([id |-> <<"42">>])

\* the resolutions of navigateTo call i of the last operation that swapped
\* the host's children
SwapsOf(i) ==
    {k \in 1..Len(web.resolutions) :
        web.resolutions[k].intent = i /\ web.resolutions[k].id # 0}

\* C12 as claimed: every navigateTo call made after start() has installed
\* the router's listeners, with a target that a route accepts, has caused
\* exactly one swap of the host's children when it returns.
C12_OneSwapPerNavigateTo ==
    \A i \in 1..Len(web.intents) :
        (/\ web.intents[i].listeners >= 1
         /\ Accepting(web.basePath \o web.intents[i].url) # {})
            => Cardinality(SwapsOf(i)) = 1

\* C13 as claimed: when a route resolution made for a navigateTo call
\* raises the unmatched-route fault, the call raises that fault to its
\* caller.
C13_UnmatchedFaultReachesCaller ==
    \A i \in 1..Len(web.intents) :
        \A r \in ResolutionsOfLastOperation :
            (r.intent = i /\ r.fault.kind = "unmatched")
                => web.intents[i].returned = r.fault

ParameterFree(pathname) == \A i \in 1..Len(pathname) : pathname[i].kind = "fixed"

\* the path a parameter-free template spells
TextOf(pathname) == [i \in 1..Len(pathname) |-> pathname[i].text]

\* the history entry the k-th navigateTo call of the last operation pushed
PushedBy(k) == web.entries[Len(web.entries) - Len(web.intents) + k]

\* C24: a compiled route accepts basePath + p exactly when its template
\* accepts p; each navigateTo(p, s) pushes the history entry
\* (basePath + p, s); and once the router is started, navigateTo(t) for a
\* declared parameter-free template t is resolved, at basePath + t, to the
\* first declared route accepting it, which is the route of t or one
\* declared before it.
C24_SameBasePath ==
    /\ \A j \in 1..Len(web.patternToRoute), u \in Targets :
           Accepts(j, web.basePath \o u)
               <=> exec(web.patternToRoute[j].route.pathname, u).ok
    /\ \A k \in 1..Len(web.intents) :
           LET intent == web.intents[k]
               full == web.basePath \o intent.url
           IN /\ Len(web.entries) >= Len(web.intents)
              /\ PushedBy(k) = [path |-> full, state |-> intent.state]
              /\ \A j \in 1..Len(web.patternToRoute) :
                     (/\ intent.listeners >= 1
                      /\ ParameterFree(web.patternToRoute[j].route.pathname)
                      /\ TextOf(web.patternToRoute[j].route.pathname) = intent.url)
                         => /\ FirstAccepting(full) \in 1..j
                            /\ \E r \in ResolutionsOfLastOperation :
                                   /\ r.intent = k
                                   /\ r.path = full
                                   /\ r.tagName =
                                          web.patternToRoute[FirstAccepting(full)].route.componentName

\* under the base path /app, navigateTo("/a/b", s1) was resolved to the
\* route declared for /a/b
C24_Witness ==
    /\ nav.op = "navigateTo"
    /\ web.basePath = <<"app">>
    /\ Len(web.intents) = 1
    /\ web.intents[1].url = <<"a", "b">>
    /\ web.intents[1].state = "s1"
    /\ web.intents[1].listeners >= 1
    /\ web.location = <<"app", "a", "b">>
    /\ \E r \in ResolutionsOfLastOperation : r.tagName = "n-page"

\* C25 as claimed: without a configured base path the base path is the
\* location path at construction with a trailing index document name or a
\* trailing slash stripped; a configured base path, the empty one
\* included, is used as it is.
C25_BasePathDetection ==
    web.basePath =
        (IF web.options.given THEN web.options.basePath
         ELSE IF LastOf(web.constructedAt) \in {"", "index.html"}
              THEN Front(web.constructedAt)
              ELSE web.constructedAt)

\* C25 amended: as claimed for a location path that ends with an index
\* document name or a slash and for a configured base path; for any other
\* location path the base path is its directory, the path without its
\* last segment (the empty path for a single segment).
C25_BasePathDetectionAmended ==
    web.basePath =
        (IF web.options.given THEN web.options.basePath
         ELSE IF LastOf(web.constructedAt) \in {"", "index.html"}
              THEN Front(web.constructedAt)
              ELSE IF Len(web.constructedAt) = 1 THEN <<>>
              ELSE SubSeq(web.constructedAt, 1, Len(web.constructedAt) - 1))

\* a router built at /app/users without a configured base path has been
\* started and navigates under /app
C25_Witness ==
    /\ ~ web.options.given
    /\ web.constructedAt = <<"app", "users">>
    /\ web.basePath = <<"app">>
    /\ nav.op = "navigateTo"
    /\ web.location = <<"app", "a", "b">>

\* C26 as claimed: no anchor carrying n-href has more than one click
\* handler of the router, and a click on such an anchor once the router is
\* started makes exactly one navigateTo call with the anchor's n-href.
C26_OneNavigationPerClick ==
    /\ \A a \in DOMAIN web.handlers : web.handlers[a] <= 1
    /\ (nav.op = "click" /\ web.listeners >= 1) =>
           Cardinality({k \in 1..Len(web.intents) :
                           web.intents[k].url = HrefOf("users-link")}) = 1

\* the resolutions of the last operation made for navigateTo call i; those
\* of i = 0 were made for start() or for a history notification itself
ResolutionsFor(i) == {k \in 1..Len(web.resolutions) : web.resolutions[k].intent = i}

\* C34: once start() has subscribed, a history notification leads to exactly
\* one route resolution, made against the location the history moved to and
\* with the state of that history entry, an empty object when the entry has
\* none; the component it creates is activated with that state.
C34_OneResolutionPerNotification ==
    (nav.op = "popstate" /\ web.listeners >= 1) =>
        /\ Cardinality(ResolutionsFor(0)) = 1
        /\ \A k \in ResolutionsFor(0) :
               LET r == web.resolutions[k]
               IN /\ r.path = web.traversed.path
                  /\ r.state = StateOrEmpty(web.traversed.state)
                  /\ r.id # 0 =>
                         \E a \in ActivationsOfLastOperation :
                             a.id = r.id /\ a.state = r.state

\* a start() that raises leaves listeners and link handlers as they were; one
\* that returns has added one subscription
SubscribesAfterResolution ==
    nav'.op = "start" =>
        IF web'.out.kind = "unmatched"
        THEN /\ web'.out = UnmatchedRouteFault(web.location)
             /\ Accepting(web.location) = {}
             /\ web'.listeners = web.listeners
             /\ web'.handlers = web.handlers
             /\ web'.processed = web.processed
        ELSE /\ Accepting(web.location) # {}
             /\ web'.listeners = web.listeners + 1

\* C35: start() subscribes to notifications and intercepts links only when
\* its initial route resolution succeeded; when the location matches no
\* route it raises the unmatched-route fault and installs nothing, and while
\* no listener is installed a navigateTo pushes its history entry, makes no
\* route resolution and leaves the host's children as they were.
C35_SubscribesAfterResolution ==
    /\ [][SubscribesAfterResolution]_vars
    /\ []((nav.op = "navigateTo" /\ web.listeners = 0) =>
             /\ web.resolutions = <<>>
             /\ web.host = nav.hostBefore
             /\ web.created = nav.createdBefore
             /\ web.location = web.basePath \o web.intents[1].url
             /\ web.entries[web.cursor].path = web.location
             /\ \A a \in Anchors : web.handlers[a] = 0)

\* the page was loaded at a location no route accepts, and a navigateTo to
\* a location a route accepts has changed the history without a resolution
C35_Witness ==
    /\ nav.op = "navigateTo"
    /\ web.listeners = 0
    /\ Accepting(web.entries[1].path) = {}
    /\ Accepting(web.location) # {}
    /\ Len(web.entries) = 2
    /\ ComponentsUnder(web.host) = {}

\* C36: however many times start() was called, each navigateTo call, each
\* link click and each history notification causes exactly one route
\* resolution, and one component is created for it when a route accepts the
\* location.
C36_StartIdempotent ==
    (nav.op \in {"navigateTo", "click", "popstate"} /\ web.listeners >= 1) =>
        /\ \A i \in 1..Len(web.intents) :
               /\ Cardinality(ResolutionsFor(i)) = 1
               /\ \A k \in ResolutionsFor(i) :
                      Accepting(web.resolutions[k].path) # {} => web.resolutions[k].id # 0
        /\ nav.op = "popstate" => Cardinality(ResolutionsFor(0)) = 1
        /\ nav.op \in {"navigateTo", "click"} => Len(web.intents) >= 1

\* C37: after an operation of a started router in which no resolution
\* raised, the host's only child is a component of the first route that
\* accepts the current location, also when a component's onInit navigated
\* during its own activation.
C37_HostMatchesLocation ==
    (/\ nav.op \in {"start", "navigateTo", "click", "popstate"}
     /\ web.listeners >= 1
     /\ web.out = NoFault
     /\ web.reported = <<>>
     /\ Accepting(web.location) # {}) =>
        /\ Len(web.host) = 1
        /\ web.host[1].kind = "component"
        /\ web.components[web.host[1].id].tagName =
               web.patternToRoute[FirstAccepting(web.location)].route.componentName

(***************************************************************************)
(* Properties of the component registry.                                   *)
(***************************************************************************)
\* C18 as claimed: no registerComponentClass or registerDefaultComponents
\* call, on whichever registry, invokes the platform's define for a tag
\* that is already defined, and the only faults of a call are those for a
\* missing or ill-formed tag name.
C18_TagDefinedAtMostOnce ==
    /\ \A k \in 1..Len(reg.defines) : ~ reg.defines[k].already
    /\ reg.out.kind \in {"none", "no-tagName", "prefix"}

(***************************************************************************)
(* Properties of components.                                               *)
(***************************************************************************)
EventsOf(e) == page.elements[e].events

Positions(e, kind) == {i \in 1..Len(EventsOf(e)) : EventsOf(e)[i].kind = kind}

\* the values written to key by the auto-fetch protocol of e, in order
IsWriteTo(event, key) == event.kind = "set" /\ event.key = key
Writes(e, key) ==
    LET written == SelectSeq(EventsOf(e), LAMBDA event : IsWriteTo(event, key))
    IN [i \in 1..Len(written) |-> written[i].value]

LoadingKey(e) == FetchKey(page.elements[e]) \o "Loading"
ErrorKey(e) == FetchKey(page.elements[e]) \o "Error"

\* C14: a component issues at most one auto-fetch request in its life,
\* none without the n-fetch attribute; the protocol writes <key>Loading
\* true once and then false once; and once the request has been answered
\* both writes have happened, however many activations there were.
C14_AutoFetchAtMostOnce ==
    \A e \in ElementIds :
        /\ Cardinality(Positions(e, "request")) <= 1
        /\ page.elements[e].attrs.nFetch = "" => Positions(e, "request") = {}
        /\ Writes(e, LoadingKey(e)) \in {<<>>, <<"true">>, <<"true", "false">>}
        /\ Positions(e, "onDataFetched") # {} => Writes(e, LoadingKey(e)) = <<"true", "false">>
        /\ Cardinality(Positions(e, "request")) >=
               Cardinality({i \in 1..Len(page.requests) : page.requests[i].element = e})

\* a component was activated a second time while its request was in
\* flight, and the request has since been answered
C14_Witness ==
    \E e \in ElementIds :
        /\ page.elements[e].activations = 2
        /\ Cardinality(Positions(e, "request")) = 1
        /\ \E d \in Positions(e, "onDataFetched") :
               Cardinality({i \in Positions(e, "onInit") : i < d}) = 2

Backing(e) ==
    LET el == page.elements[e]
        config == el.managers[el.gen].config
    IN IF config.mode = "storage"
       THEN page.storage[getBackend(config.storageType)][config.storageKey]
       ELSE el.attrs.nState

\* C16 as claimed: when a successful auto-fetch has been answered,
\* this.state holds the payload under <key> and <key>Loading=false, and
\* so does the backing attribute or storage entry, whether or not the
\* component was detached and attached again in between.
C16_PayloadHeldAfterFetch ==
    (act.op = "respond" /\ act.value = "payload") =>
        LET e == act.element
            backing == parse(Backing(e))
        IN /\ get(page, e, act.key) = "payload"
           /\ get(page, e, act.key \o "Loading") = "false"
           /\ backing.ok
           /\ ValueAt(backing.value, act.key) = "payload"
           /\ ValueAt(backing.value, act.key \o "Loading") = "false"

\* the value the last resolve of token returned during the activation
RECURSIVE ValueReturned(_, _, _)
ValueReturned(rets, token, i) ==
    IF i = 0 THEN NoValue
    ELSE IF rets[i][1] = token THEN rets[i][2]
    ELSE ValueReturned(rets, token, i - 1)

Declared(e) ==
    {page.elements[e].dependencies[i] : i \in 1..Len(page.elements[e].dependencies)}

\* C17: an activation fails in injection only when the resolve of a
\* declared token that is registered raises; with no container, or with
\* none of the declared tokens registered, it raises nothing; when it
\* raises nothing the template is rendered and onInit has run, every
\* declared token that is registered is a property holding the value its
\* resolve returned, and an unregistered one was given no property.
C17_BestEffortInjection ==
    act.op = "attach" =>
        LET e == act.element
            el == page.elements[e]
            registered == IF page.globalContainer THEN Declared(e) \cap act.registered
                          ELSE {}
        IN /\ IsFault(act.out) => registered # {}
           /\ act.out.kind # "unregistered"
           /\ ~ IsFault(act.out) =>
                  /\ el.templateRendered
                  /\ Len(el.events) >= 1
                  /\ el.events[Len(el.events)].kind = "onInit"
                  /\ Cardinality(Positions(e, "onInit")) = el.activations
                  /\ \A t \in registered :
                         /\ t \in DOMAIN el.props
                         /\ el.props[t] = ValueReturned(act.rets, t, Len(act.rets))
                  /\ \A t \in Declared(e) \ registered : t \notin DOMAIN el.props

\* a component declaring auth and api was activated with auth registered
\* and api not: it holds the auth object and no api property
C17_Witness ==
    /\ act.op = "attach"
    /\ ~ IsFault(act.out)
    /\ Declared(act.element) = {"auth", "api"}
    /\ act.registered = {"auth"}
    /\ page.globalContainer
    /\ "auth" \in DOMAIN page.elements[act.element].props
    /\ page.elements[act.element].props["auth"] \in Objects
    /\ page.elements[act.element].attrs.nFetch # ""
    /\ Positions(act.element, "request") # {}

StateKeys ==
    UserKeys \cup {"data", "dataLoading", "dataError", "users", "usersLoading", "usersError"}

\* C19: a state manager built in persisted mode over a key that holds no
\* stored value starts empty; after set(k, v) through a manager in
\* persisted mode, a manager newly built for the same key and backend
\* kind reads v under k and, for every key, what the writing manager
\* holds.
C19_PersistedRoundTrip ==
    /\ \A e \in ElementIds :
           LET config == parseConfig(page.elements[e].attrs)
           IN (/\ config.mode = "storage"
               /\ page.storage[getBackend(config.storageType)][config.storageKey] = NoItem)
                  => initialize(page, page.elements[e].attrs, config) = <<>>
    /\ (act.op = "set" /\ parseConfig(page.elements[act.element].attrs).mode = "storage"
           /\ parseConfig(page.elements[act.element].attrs) =
                  page.elements[act.element].managers[page.elements[act.element].gen].config) =>
           LET el == page.elements[act.element]
               written == el.managers[el.gen]
               fresh == initialize(page, el.attrs, parseConfig(el.attrs))
           IN /\ ValueAt(fresh, act.key) = act.value
              /\ \A k \in StateKeys : ValueAt(fresh, k) = ValueAt(written.cache, k)

\* set("count", "1") through a manager bound to a key of the local storage
C19_Witness ==
    /\ act.op = "set" /\ act.key = "count" /\ act.value = "1"
    /\ page.elements[act.element].attrs.nStateKey = "k1"
    /\ page.elements[act.element].attrs.nStateStorage = "local"
    /\ page.elements[act.element].managers[page.elements[act.element].gen].config.mode = "storage"
    /\ page.storage["local"]["k1"].kind = "json"
    /\ page.storage["session"]["k1"] # page.storage["local"]["k1"]

\* a step of a component that never had a storage key leaves the storage
\* backends and every other component as they were
OnlyOwnAttribute ==
    (act'.op \in {"attach", "set", "respond"}
        /\ ~ page.elements[act'.element].keyed) =>
        /\ page'.storage = page.storage
        /\ \A other \in ElementIds \ {act'.element} :
               page'.elements[other] = page.elements[other]

\* C20: whatever a component without the n-state-key attribute does to its
\* state (set by application code, the writes of its auto-fetch), no entry
\* of a storage backend changes and no other component changes; its map
\* is in its own n-state attribute.
C20_InlineStateIsLocal ==
    /\ [][OnlyOwnAttribute]_vars
    /\ [](\A e \in ElementIds :
             (act.op = "set" /\ act.element = e /\ ~ page.elements[e].keyed)
                 => page.elements[e].attrs.nState =
                        stringify(page.elements[e].managers[page.elements[e].gen].cache))

\* a component without storage key has set count while the other
\* component is active too
C20_Witness ==
    /\ act.op = "set" /\ act.key = "count" /\ act.value = "1"
    /\ ~ page.elements[act.element].keyed
    /\ ValueAt(parse(page.elements[act.element].attrs.nState).value, "count") = "1"
    /\ \A e \in ElementIds : page.elements[e].gen > 0

ActivationOrder == <<"state", "data", "inject", "render", "autoFetch", "onInit">>

\* C30: the steps of an activation begin in the order state manager, data
\* client, injection, template, auto-fetch, onInit, the data client being
\* bound to the state manager just built; an activation in which no step
\* raises begins all six, so onInit is called once, last, and after the
\* request of the auto-fetch has left; one that a raising provider ends
\* stops at the injection.
C30_ActivationOrder ==
    \A e \in ElementIds :
        LET el == page.elements[e]
        IN /\ el.steps = SubSeq(ActivationOrder, 1, Len(el.steps))
           /\ el.data = el.gen
           /\ (act.op = "attach" /\ act.element = e) =>
                  /\ IF IsFault(act.out) THEN el.steps = SubSeq(ActivationOrder, 1, 3)
                     ELSE el.steps = ActivationOrder
                  /\ ~ IsFault(act.out) =>
                         /\ el.events[Len(el.events)].kind = "onInit"
                         /\ \A r \in Positions(e, "request") : r < Len(el.events)

\* the second activation of a component with declared dependencies and an
\* auto-fetch, its first request still in flight
C30_Witness ==
    /\ act.op = "attach"
    /\ ~ IsFault(act.out)
    /\ page.elements[act.element].activations = 2
    /\ page.elements[act.element].steps = ActivationOrder
    /\ page.elements[act.element].dependencies # <<>>
    /\ page.globalContainer
    /\ \E i \in 1..Len(page.requests) : page.requests[i].element = act.element

ModeOf(p, e) == p.elements[e].managers[p.elements[e].gen].config.mode

ModeUnchanged ==
    \A e \in ElementIds :
        (page.elements[e].gen > 0) => ModeOf(page', e) = ModeOf(page, e)

\* C21 as claimed: once a component has a state manager, the mode its
\* state reports (getMode) is the same after every step: a state mutation,
\* a change of the n-state-key attribute, a deactivation, a re-activation.
C21_ModeFixedForLifetime == [][ModeUnchanged]_vars


(***************************************************************************)
(* Properties of the data access client.                                   *)
(***************************************************************************)
FaultResult(message) == [ok |-> FALSE, status |-> 0, data |-> NullData, error |-> <<message>>]

\* C22: fetch, submit and delete always resolve and never reject; a call
\* ended by a transport failure or by the abort of its timer resolves to
\* ok=false, status=0, data=null and the failure's message as error; a call
\* answered with a status outside 200..299 resolves to ok=false, data=null
\* and an error that is not null; a result with ok=true has error=null.
C22_NeverRaises ==
    LET s == client.settled
        result == s.outcome.result
    IN s.cause # "none" =>
          /\ s.outcome.kind = "resolved"
          /\ s.cause = "failure" => result = FaultResult(FetchRejection.message)
          /\ s.cause = "abort" => result = FaultResult(AbortRejection.message)
          /\ s.cause = "stringify" => result = FaultResult(StringifyError.message)
          /\ (s.cause = "response" /\ ~ IsOk(s.response[1])) =>
                 /\ ~ result.ok
                 /\ result.status = s.response[1].status
                 /\ result.data = NullData
                 /\ result.error # NoError
          /\ (s.cause = "response" /\ IsOk(s.response[1])) =>
                 /\ result.ok
                 /\ result.status = s.response[1].status
          /\ result.ok => result.error = NoError

\* a call whose timer aborted it, after an earlier call of the same client
\* was settled
C22_Witness ==
    /\ client.settled.cause = "abort"
    /\ client.settled.outcome.kind = "resolved"
    /\ client.issued = MaxCalls
    /\ \A id \in CallIds : client.calls[id].phase = "settled"

\* a JSON answer with status 404 whose body is the value null: reading
\* its error property raises inside parseResponse
C22_WitnessNullBody ==
    /\ client.settled.cause = "response"
    /\ client.settled.response = <<[status |-> 404, json |-> TRUE, body |-> NullData]>>
    /\ client.settled.outcome.result.error = StatusText(404)

\* a step in which a call settles
Settling == \E id \in CallIds : client.calls[id].phase # "settled"
                                  /\ client'.calls[id].phase = "settled"

StateWrittenOnlyByOkFetch ==
    LET s == client'.settled
    IN IF /\ Settling
          /\ s.cause = "response"
          /\ s.call.method = "fetch"
          /\ s.call.stateKey # ""
          /\ client.bound
          /\ IsOk(s.response[1])
       THEN /\ client'.writes = client.writes + 1
            /\ client'.stored = parseResponse(s.response[1]).data
       ELSE /\ client'.writes = client.writes
            /\ client'.stored = client.stored

\* C33: the bound state is written exactly when a fetch that was given a
\* stateKey, on a client with a state manager, is answered with an ok
\* status, and then with the parsed payload; an error status, a transport
\* failure, an abort, and every submit, post, put, patch and delete leave
\* the state as it was.
C33_StateWrittenOnlyByOkFetch == [][StateWrittenOnlyByOkFetch]_vars

\* a payload stored by an ok fetch is still there after a later call of
\* the same client was answered with an error status
C33_Witness ==
    /\ client.writes = 1
    /\ client.stored.kind = "object"
    /\ client.settled.cause = "response"
    /\ ~ IsOk(client.settled.response[1])
    /\ client.settled.call.method = "fetch"
    /\ client.settled.call.stateKey = "data"

Pending(id) == client.calls[id].phase = "pending"

\* a call with a timeout settles even if the transport never answers
TimedCallsSettle ==
    \A id \in CallIds : (Pending(id) /\ Armed(client.calls[id])) ~> ~ Pending(id)

\* C23: every call in flight, the auto-fetch of a component included,
\* eventually settles even if the transport never answers, its own timer
\* cancelling it.
C23_EveryRequestBounded ==
    \A id \in CallIds : Pending(id) ~> ~ Pending(id)

(***************************************************************************)
(* Properties of the global container.                                     *)
(***************************************************************************)
\* C28: before the first run() of any application, tryGetContainer reports
\* undefined and getContainer and inject raise, also when createNativeJs
\* has already returned.
C28_NoContainerBeforeRun ==
    app.seen.runs = 0 =>
        /\ app.seen.op = "tryGetContainer" => app.seen.out = "undefined"
        /\ app.seen.op \in {"getContainer", "inject"} => app.seen.out = "raised"


(***************************************************************************)
(* Properties of template rendering.                                       *)
(***************************************************************************)
\* what an activation of e does to its content
RendersOnce(e) ==
    LET b == page.elements[e]
        a == page'.elements[e]
    IN (act'.op = "attach" /\ act'.element = e) =>
          IF /\ b.templateId # ""
             /\ ~ b.templateRendered
             /\ b.templateId \in page.templates
             /\ ~ IsFault(act'.out)
          THEN /\ a.content = <<"clone">>
               /\ a.templateRendered
               /\ a.renders = b.renders + 1
          ELSE /\ a.content = b.content
               /\ a.templateRendered = b.templateRendered
               /\ a.renders = b.renders

\* C31: a component's template is cloned into its content at most once per
\* instance: the first activation that reaches the rendering step with the
\* declared template in the document renders it, and every other activation
\* (a later one, one of a component without template, one that raises)
\* leaves the content as it was, nodes written by application code included.
C31_TemplateRenderedOnce ==
    /\ [] (\A e \in ElementIds :
              /\ page.elements[e].renders <= 1
              /\ page.elements[e].templateRendered <=> page.elements[e].renders = 1)
    /\ [][\A e \in ElementIds : RendersOnce(e)]_vars

\* the second activation of a rendered component whose content application
\* code has added to
C31_Witness ==
    /\ act.op = "attach"
    /\ ~ IsFault(act.out)
    /\ page.elements[act.element].activations = 2
    /\ page.elements[act.element].renders = 1
    /\ page.elements[act.element].content = <<"clone", "own">>


(***************************************************************************)
(* Properties of the state manager.                                        *)
(***************************************************************************)
Mutators == {"set", "setAll", "replace", "remove", "clear"}

\* a read leaves the document, the storage backends and every manager as
\* they were
ReadsWriteNothing == act'.op \in ReadOps => page' = page

\* C32: after set, setAll, replace, remove and clear of a state manager its
\* backing store (the n-state attribute in inline mode, the entry of the
\* storage backend under its key in persisted mode) holds the serialization
\* of the manager's whole map; get, getAll, has and getMode change nothing.
C32_WholeMapPersisted ==
    /\ [](act.op \in Mutators =>
             Backing(act.element) =
                 stringify(getAll(page, act.element, page.elements[act.element].gen)))
    /\ [][ReadsWriteNothing]_vars

\* remove("count") through a manager in persisted mode that holds another
\* key as well
C32_Witness ==
    /\ act.op = "remove" /\ act.key = "count"
    /\ getMode(page, act.element, page.elements[act.element].gen) = "storage"
    /\ Backing(act.element) = Json([other |-> "1"])

\* the entry of the storage backend a manager in persisted mode writes to
EntryOf(p, e) ==
    LET config == p.elements[e].managers[p.elements[e].gen].config
    IN p.storage[getBackend(config.storageType)][config.storageKey]

SameEntry(p, a, b) ==
    LET ca == p.elements[a].managers[p.elements[a].gen].config
        cb == p.elements[b].managers[p.elements[b].gen].config
    IN /\ ca.mode = "storage" /\ cb.mode = "storage"
       /\ ca.storageKey = cb.storageKey
       /\ getBackend(ca.storageType) = getBackend(cb.storageType)

\* set(k1, v) through one manager directly followed by set(k2, w) through
\* another manager on the same entry leaves v under k1 in the entry
NoLostUpdate ==
    (/\ act.op = "set" /\ act'.op = "set"
     /\ act.element # act'.element
     /\ act.key # act'.key
     /\ act.value # UndefinedValue
     /\ SameEntry(page, act.element, act'.element)) =>
        LET entry == EntryOf(page', act.element)
        IN /\ entry.kind = "json"
           /\ ValueAt(entry.json, act.key) = act.value

\* C38: with two live state managers on the same storage key and backend,
\* a value written with set(k1, v) through one of them is still in the
\* backend entry after the other performs set(k2, w), k2 different from k1.
C38_NoLostUpdate == [][NoLostUpdate]_vars


\* C40: a component activated by the router of an application injects from
\* that application's container, whatever other application was created or
\* run before the activation.
C40_InjectsFromOwnApplication ==
    app.seen.op = "activate" => app.seen.container = app.container[app.seen.app]


====
